---- MODULE Spec2Model ----
(***************************************************************************)
(* A model of the TerminalView session engine: the LinuxPty process        *)
(* session (linux_pty.py), the TerminalView2 view listener with its        *)
(* update thread and its line/colour bookkeeping (TerminalView2.py, and    *)
(* the older copy of the same class in TerminalView.py), and the keypress  *)
(* command.  The terminal emulator (terminal_emulator.py) and the Sublime  *)
(* view are collaborators: the emulator is modelled by its contract, the   *)
(* view by the calls the session makes on it.                              *)
(***************************************************************************)
EXTENDS Integers, Sequences, FiniteSets, TLC

\* ------------------------------------------------------------------ bounds
\* Rows of the emulator grid are 0..MaxRow.
MaxRow == 2
Rows == 0..MaxRow

\* Column offsets at which a styled run may start.
MaxCol == 1
Cols == 0..MaxCol

\* ------------------------------------------------------------- value sets
\* The "row should be cleared" value of a dirty-lines mapping (Python's None):
\* a value that is no row text.
None == <<"None">>

\* Row texts the emulator may report (character sequences of lengths 1, 2).
Contents == {<<"a">>, <<"b", "c">>}

\* The two modules that define a class TerminalView2.
Impls == {"TerminalView2.py", "TerminalView.py"}

\* ---------------------------------------------------------------- helpers
\* A Python dict is a function whose domain is the set of its keys.
EmptyDict == <<>>
Put(d, k, v) == [x \in (DOMAIN d) \cup {k} |-> IF x = k THEN v ELSE d[x]]
Del(d, k) == [x \in (DOMAIN d) \ {k} |-> d[x]]

Min(S) == CHOOSE x \in S : \A y \in S : x <= y

\* sorted(keys): the keys of a dict of rows in ascending order.
RECURSIVE Sorted(_)
Sorted(S) == IF S = {} THEN <<>> ELSE <<Min(S)>> \o Sorted(S \ {Min(S)})

\* "%i" of a non-negative integer: its decimal digits.
Digit(n) == CASE n = 0 -> "0" [] n = 1 -> "1" [] n = 2 -> "2" [] n = 3 -> "3"
              [] n = 4 -> "4" [] n = 5 -> "5" [] n = 6 -> "6" [] n = 7 -> "7"
              [] n = 8 -> "8" [] n = 9 -> "9"
RECURSIVE Digits(_)
Digits(n) == IF n < 10 THEN <<Digit(n)>> ELSE Digits(n \div 10) \o <<Digit(n % 10)>>

\* ----------------------------------------------------------------- state
VARIABLES
    impl,                \* which module's TerminalView2 class this session is
    show_colors,         \* setting terminal_view_show_colors, read at start
    has_shell,           \* the attribute TerminalView2._shell exists (the spawn succeeded)
    _right_margin,       \* setting terminal_view_right_margin, read at start
    _bottom_margin,      \* setting terminal_view_bottom_margin, read at start
    _pty,                \* LinuxPty._pty, the master descriptor, is open
    _pts,                \* LinuxPty._pts, the slave descriptor, is open
    _active_instance,    \* the class attribute: None or the session its weakref refers to
    instances,           \* the sessions that are alive (their weak references are not cleared)
    view_focus,          \* the sessions whose on_activated was not followed by their on_deactivated
    delivered,           \* the session the last keypress command called, or None
    pc,                  \* position of the update thread
    worker_ref,          \* the update thread holds a strong reference to the session
    owner_ref,           \* Sublime holds the session (its view is open)
    weak_alive,          \* the weak reference given to the update thread is not cleared
    del_pc,              \* position of __del__
    del_thread,          \* the thread that runs __del__
    stop_result,         \* LinuxPty.stop: the value is_running() returned
    _shell_is_running,   \* TerminalView2._shell_is_running
    _process,            \* LinuxPty._process is not None
    child_alive,         \* the child has not exited (Popen.poll() is None)
    kills,               \* number of Popen.kill() calls made
    observed_exit,       \* the loop found the child not running and called _stop
    view_valid,          \* view.is_valid()
    metrics,             \* the view's viewport extent, line height and em width
    _rows_cols,          \* <<TerminalView2._rows, TerminalView2._cols>>
    reported,            \* the sizes view_size has returned to _resize_screen_if_needed
    notified,            \* size -> number of update_screen_size calls with it (up to MaxNotified)
    _last_update,        \* TerminalView2._last_update
    _scroll,             \* TerminalView2._scroll: None or <<unit, direction>>
    index,               \* _update_scrolling: the local index
    direction,           \* _update_scrolling: the local direction
    scroll_pending,      \* the requests that were in the slot during this _update_scrolling
    active,              \* TerminalView2._active_instance refers to this session
    kp_pc,               \* position of a keypress command on the main thread
    kp_request,          \* the arguments of the last keypress command
    kp_outcome,          \* the outcome of the last keypress command
    kp_keycode,          \* send_keypress: the key code of the last keypress sent
    kp_stopped,          \* is_running() was false when the last keypress sent began
    _buffer_contents,    \* TerminalView2._buffer_contents: row -> text with newline
    _color_regions,      \* TerminalView2._color_regions: row -> deque of region keys
    view_regions,        \* regions registered on the view: key -> <<a, b>>
    read_only,           \* the view's read-only flag
    dirty,               \* the emulator's dirty lines: row -> text or None
    todo,                \* _update_lines: the sorted rows still to be applied
    had_dirty_lines,     \* update_view: "len(dirty_lines) > 0" held in this iteration
    applied,             \* _update_lines: the rows its loop has applied so far
    row_color_map,       \* _update_lines: the colour map of the row applied last
    registered,          \* row -> the region keys added for it, in the order of the
                         \* add_regions calls, since its regions were last removed
    cursor,              \* the emulator's cursor(): <<row, column>>
    last_cursor_pos,     \* setting terminal_view_last_cursor_pos: None or <<row, column>>
    view_text,           \* the text of the view's buffer
    sel,                 \* view.sel(): the regions of the selection
    out                  \* the calls the last step made on the view, pty and emulator

vars == <<impl, show_colors, has_shell, _right_margin, _bottom_margin, _pty, _pts,
          _active_instance, instances, view_focus, delivered,
          _scroll, index, direction,
          scroll_pending, pc, worker_ref, owner_ref, weak_alive, del_pc,
          del_thread, stop_result, _shell_is_running, _process, child_alive,
          kills, observed_exit, view_valid, metrics, _rows_cols, reported,
          notified, _last_update, active, kp_pc, kp_request, kp_outcome,
          kp_keycode, kp_stopped,
          _buffer_contents, _color_regions, view_regions, read_only, dirty,
          todo, had_dirty_lines, applied, row_color_map, registered, cursor,
          last_cursor_pos, view_text, sel, out>>

\* --------------------------------------------------- line bookkeeping
\* The for loop of _get_line_start_and_end_points: rows i..line_no-1 that
\* have tracked content add their length to start_point.
RECURSIVE SumLinesBefore(_, _, _, _)
SumLinesBefore(bc, i, line_no, start_point) ==
    IF i >= line_no THEN start_point
    ELSE SumLinesBefore(bc, i + 1, line_no,
                        IF i \in DOMAIN bc THEN start_point + Len(bc[i])
                        ELSE start_point)

\* A variant whose loop starts at row 1.
StartPointsFromRowOne(bc, line_no) ==
    LET start_point == SumLinesBefore(bc, 1, line_no, 0)
        end_point == IF line_no \in DOMAIN bc
                     THEN start_point + Len(bc[line_no])
                     ELSE start_point
    IN  <<start_point, end_point>>

_get_line_start_and_end_points(bc, line_no) ==
    LET start_point == SumLinesBefore(bc, 0, line_no, 0)
        end_point == IF line_no \in DOMAIN bc
                     THEN start_point + Len(bc[line_no])
                     ELSE start_point
    IN  <<start_point, end_point>>

\* region_key = "%i,%s" % (line_no, idx)
RegionKey(line_no, idx) == Digits(line_no) \o <<",">> \o Digits(idx)

\* color_scope = "terminalview.%s_%s" % (color[0], color[1])
ColorScope(color) ==
    <<"terminalview.">> \o Digits(color[1]) \o <<"_">> \o Digits(color[2])

\* _remove_color_regions_on_line: popleft until the deque is empty, erasing
\* each key from the view.  The row keeps its (now empty) deque.
RECURSIVE PopAll(_, _, _)
PopAll(region_deque, vr, calls) ==
    IF region_deque = <<>> THEN [vr |-> vr, calls |-> calls]
    ELSE LET region == Head(region_deque)
         IN  PopAll(Tail(region_deque), Del(vr, region),
                    Append(calls, <<"erase_regions", region>>))

_remove_color_regions_on_line(cr, vr, line_no) ==
    IF line_no \in DOMAIN cr
    THEN LET r == PopAll(cr[line_no], vr, <<>>)
         IN  [cr |-> Put(cr, line_no, <<>>), vr |-> r.vr, calls |-> r.calls]
    ELSE [cr |-> cr, vr |-> vr, calls |-> <<>>]

\* A variant that keeps a cleared row in the tracked content.
UpdateLineContentKeepsRow(bc, line_no, content) ==
    LET se == _get_line_start_and_end_points(bc, line_no)
        line_start == se[1]
        line_end == se[2]
    IN  IF content = None
        THEN [bc |-> bc,
              calls |-> << <<"terminal_view_erase", line_start, line_end>> >>]
        ELSE LET content_w_newline == content \o <<"\n">>
             IN  [bc |-> Put(bc, line_no, content_w_newline),
                  calls |-> << <<"terminal_view_replace", line_start, line_end,
                                 content_w_newline>> >>]

\* TerminalView2.py, _update_line_content.
_update_line_content(bc, line_no, content) ==
    LET se == _get_line_start_and_end_points(bc, line_no)
        line_start == se[1]
        line_end == se[2]
    IN  IF content = None
        THEN [bc |-> IF line_no \in DOMAIN bc THEN Del(bc, line_no) ELSE bc,
              calls |-> << <<"terminal_view_erase", line_start, line_end>> >>]
        ELSE LET content_w_newline == content \o <<"\n">>
             IN  [bc |-> Put(bc, line_no, content_w_newline),
                  calls |-> << <<"terminal_view_replace", line_start, line_end,
                                 content_w_newline>> >>]

\* TerminalView.py, _update_line_content: the replace command is commented
\* out, only the local copy is updated.
TerminalView_update_line_content(bc, line_no, content) ==
    LET se == _get_line_start_and_end_points(bc, line_no)
        line_start == se[1]
        line_end == se[2]
    IN  IF content = None
        THEN [bc |-> IF line_no \in DOMAIN bc THEN Del(bc, line_no) ELSE bc,
              calls |-> << <<"terminal_view_erase", line_start, line_end>> >>]
        ELSE LET content_w_newline == content \o <<"\n">>
             IN  [bc |-> Put(bc, line_no, content_w_newline),
                  calls |-> <<>>]

\* A variant that loses the first key of a row.
RegisterLosesFirstKey(cr, line_no, key) ==
    IF line_no \in DOMAIN cr
    THEN [cr |-> Put(cr, line_no, <<key>> \o cr[line_no]), raised |-> FALSE]
    ELSE [cr |-> Put(cr, line_no, <<>>), raised |-> FALSE]

\* TerminalView2.py, _register_color_region: appendleft on the row's deque.
_register_color_region(cr, line_no, key) ==
    IF line_no \in DOMAIN cr
    THEN [cr |-> Put(cr, line_no, <<key>> \o cr[line_no]), raised |-> FALSE]
    ELSE [cr |-> Put(cr, line_no, <<key>>), raised |-> FALSE]

\* TerminalView.py, _register_color_region: the test reads self.color_regions,
\* an attribute that is never set, so the call raises AttributeError.
TerminalView_register_color_region(cr, line_no, key) ==
    [cr |-> cr, raised |-> TRUE]

RegisterColorRegion(cr, line_no, key) ==
    IF impl = "TerminalView2.py"
    THEN _register_color_region(cr, line_no, key)
    ELSE TerminalView_register_color_region(cr, line_no, key)

\* _update_line_colors: for each (idx, field) of the row's colour map, add a
\* region on the view and register its key.  An exception ends the loop.
RECURSIVE _update_line_colors(_, _, _, _, _, _)
_update_line_colors(bc, cr, vr, line_no, line_color_map, calls) ==
    IF line_color_map = <<>>
    THEN [cr |-> cr, vr |-> vr, calls |-> calls, raised |-> FALSE]
    ELSE LET field == Head(line_color_map)
             idx == field.idx
             length == field.field_length
             line_start == _get_line_start_and_end_points(bc, line_no)[1]
             color_start == line_start + idx
             region_key == RegionKey(line_no, idx)
             added == Put(vr, region_key, <<color_start, color_start + length>>)
             call == <<"add_regions", region_key, color_start,
                       color_start + length, ColorScope(field.color)>>
             reg == RegisterColorRegion(cr, line_no, region_key)
         IN  IF reg.raised
             THEN [cr |-> reg.cr, vr |-> added, calls |-> Append(calls, call),
                   raised |-> TRUE]
             ELSE _update_line_colors(bc, reg.cr, added, line_no,
                                      Tail(line_color_map), Append(calls, call))

\* One iteration of the for loop of _update_lines.
UpdateLineContent(bc, line_no, content) ==
    IF impl = "TerminalView2.py"
    THEN _update_line_content(bc, line_no, content)
    ELSE TerminalView_update_line_content(bc, line_no, content)

\* A variant that rewrites the row before it removes the row's regions.
UpdateLinesStepContentFirst(bc, cr, vr, line_no, content, line_color_map) ==
    LET rm == _remove_color_regions_on_line(cr, vr, line_no)
        up == UpdateLineContent(bc, line_no, content)
        co == _update_line_colors(up.bc, rm.cr, rm.vr, line_no, line_color_map, <<>>)
    IN  [bc |-> up.bc, cr |-> co.cr, vr |-> co.vr,
         calls |-> up.calls \o rm.calls \o co.calls, raised |-> co.raised]

_update_lines_step(bc, cr, vr, line_no, content, line_color_map) ==
    LET rm == _remove_color_regions_on_line(cr, vr, line_no)
        up == UpdateLineContent(bc, line_no, content)
        co == _update_line_colors(up.bc, rm.cr, rm.vr, line_no, line_color_map, <<>>)
    IN  [bc |-> up.bc, cr |-> co.cr, vr |-> co.vr,
         calls |-> rm.calls \o up.calls \o co.calls, raised |-> co.raised]

\* ------------------------------------------------------------- linux_pty
\* A variant of is_running that does not poll the child.
IsRunningWithoutPoll(process, alive) == process

\* LinuxPty.is_running
is_running(process, alive) == process /\ alive

\* LinuxPty.update_screen_size tests "self.is_running", the bound method
\* itself, which is true whatever the state of the process.
update_screen_size_test(process, alive) == TRUE

\* A variant that packs the columns before the lines.
UpdateScreenSizeSwapped(process, alive, lines, columns) ==
    IF update_screen_size_test(process, alive)
    THEN << <<"ioctl", columns, lines, 0, 0>> >>
    ELSE <<>>

\* LinuxPty.update_screen_size: struct.pack('HHHH', lines, columns, 0, 0)
\* handed to ioctl(TIOCSWINSZ).
update_screen_size(process, alive, lines, columns) ==
    IF update_screen_size_test(process, alive)
    THEN << <<"ioctl", lines, columns, 0, 0>> >>
    ELSE <<>>

\* Key names and key codes are sequences of code points.
_LINUX_KEY_MAP ==
    (<<101, 110, 116, 101, 114>> :> <<13>>)   \* 'enter': '\r'
 @@ (<<98, 97, 99, 107, 115, 112, 97, 99, 101>> :> <<127>>)   \* 'backspace': '\x7f'
 @@ (<<116, 97, 98>> :> <<9>>)   \* 'tab': '\t'
 @@ (<<115, 112, 97, 99, 101>> :> <<32>>)   \* 'space': ' '
 @@ (<<101, 115, 99, 97, 112, 101>> :> <<27>>)   \* 'escape': '\x1b'
 @@ (<<100, 111, 119, 110>> :> <<27, 91, 66>>)   \* 'down': '\x1b[B'
 @@ (<<117, 112>> :> <<27, 91, 65>>)   \* 'up': '\x1b[A'
 @@ (<<114, 105, 103, 104, 116>> :> <<27, 91, 67>>)   \* 'right': '\x1b[C'
 @@ (<<108, 101, 102, 116>> :> <<27, 91, 68>>)   \* 'left': '\x1b[D'
 @@ (<<104, 111, 109, 101>> :> <<27, 91, 49, 126>>)   \* 'home': '\x1b[1~'
 @@ (<<101, 110, 100>> :> <<27, 91, 52, 126>>)   \* 'end': '\x1b[4~'
 @@ (<<112, 97, 103, 101, 117, 112>> :> <<27, 91, 53, 126>>)   \* 'pageup': '\x1b[5~'
 @@ (<<112, 97, 103, 101, 100, 111, 119, 110>> :> <<27, 91, 54, 126>>)   \* 'pagedown': '\x1b[6~'
 @@ (<<100, 101, 108, 101, 116, 101>> :> <<27, 91, 51, 126>>)   \* 'delete': '\x1b[3~'
 @@ (<<105, 110, 115, 101, 114, 116>> :> <<27, 91, 50, 126>>)   \* 'insert': '\x1b[2~'
 @@ (<<102, 49>> :> <<27, 79, 80>>)   \* 'f1': '\x1bOP'
 @@ (<<102, 50>> :> <<27, 79, 81>>)   \* 'f2': '\x1bOQ'
 @@ (<<102, 51>> :> <<27, 79, 82>>)   \* 'f3': '\x1bOR'
 @@ (<<102, 52>> :> <<27, 79, 83>>)   \* 'f4': '\x1bOS'
 @@ (<<102, 53>> :> <<27, 91, 49, 53, 126>>)   \* 'f5': '\x1b[15~'
 @@ (<<102, 54>> :> <<27, 91, 49, 55, 126>>)   \* 'f6': '\x1b[17~'
 @@ (<<102, 55>> :> <<27, 91, 49, 56, 126>>)   \* 'f7': '\x1b[18~'
 @@ (<<102, 56>> :> <<27, 91, 49, 57, 126>>)   \* 'f8': '\x1b[19~'
 @@ (<<102, 57>> :> <<27, 91, 50, 48, 126>>)   \* 'f9': '\x1b[20~'
 @@ (<<102, 49, 48>> :> <<27, 91, 50, 49, 126>>)   \* 'f10': '\x1b[21~'
 @@ (<<102, 49, 50>> :> <<27, 91, 50, 52, 126>>)   \* 'f12': '\x1b[24~'

_LINUX_CTRL_KEY_MAP ==
    (<<117, 112>> :> <<27, 91, 49, 59, 53, 65>>)   \* 'up': '\x1b[1;5A'
 @@ (<<100, 111, 119, 110>> :> <<27, 91, 49, 59, 53, 66>>)   \* 'down': '\x1b[1;5B'
 @@ (<<114, 105, 103, 104, 116>> :> <<27, 91, 49, 59, 53, 67>>)   \* 'right': '\x1b[1;5C'
 @@ (<<108, 101, 102, 116>> :> <<27, 91, 49, 59, 53, 68>>)   \* 'left': '\x1b[1;5D'
 @@ (<<64>> :> <<0>>)   \* '@': '\x00'
 @@ (<<96>> :> <<0>>)   \* '`': '\x00'
 @@ (<<91>> :> <<27>>)   \* '[': '\x1b'
 @@ (<<123>> :> <<27>>)   \* '{': '\x1b'
 @@ (<<92>> :> <<28>>)   \* '\\': '\x1c'
 @@ (<<124>> :> <<28>>)   \* '|': '\x1c'
 @@ (<<93>> :> <<29>>)   \* ']': '\x1d'
 @@ (<<125>> :> <<29>>)   \* '}': '\x1d'
 @@ (<<94>> :> <<30>>)   \* '^': '\x1e'
 @@ (<<126>> :> <<30>>)   \* '~': '\x1e'
 @@ (<<95>> :> <<31>>)   \* '_': '\x1f'
 @@ (<<63>> :> <<127>>)   \* '?': '\x7f'

\* A variant of the alt-key table without the up arrow.
AltKeyMapWithoutUp ==
    (<<100, 111, 119, 110>> :> <<27, 91, 49, 59, 51, 66>>)
 @@ (<<114, 105, 103, 104, 116>> :> <<27, 91, 49, 59, 51, 67>>)
 @@ (<<108, 101, 102, 116>> :> <<27, 91, 49, 59, 51, 68>>)

_LINUX_ALT_KEY_MAP ==
    (<<117, 112>> :> <<27, 91, 49, 59, 51, 65>>)   \* 'up': '\x1b[1;3A'
 @@ (<<100, 111, 119, 110>> :> <<27, 91, 49, 59, 51, 66>>)   \* 'down': '\x1b[1;3B'
 @@ (<<114, 105, 103, 104, 116>> :> <<27, 91, 49, 59, 51, 67>>)   \* 'right': '\x1b[1;3C'
 @@ (<<108, 101, 102, 116>> :> <<27, 91, 49, 59, 51, 68>>)   \* 'left': '\x1b[1;3D'

\* str.lower() on code points below 256.
LowerChar(c) ==
    IF (c >= 65 /\ c <= 90) \/ (c >= 192 /\ c <= 222 /\ c # 215) THEN c + 32 ELSE c
lower(key) == [i \in 1..Len(key) |-> LowerChar(key[i])]

\* str.encode('UTF-8') on code points below 2048.
Utf8Char(c) == IF c < 128 THEN <<c>> ELSE <<192 + (c \div 64), 128 + (c % 64)>>
RECURSIVE encode_utf8(_)
encode_utf8(string) ==
    IF string = <<>> THEN <<>> ELSE Utf8Char(Head(string)) \o encode_utf8(Tail(string))

\* A variant that looks up the lowercased key.
KeyCodeOfLoweredKey(key) ==
    IF lower(key) \in DOMAIN _LINUX_KEY_MAP THEN _LINUX_KEY_MAP[lower(key)] ELSE key

\* LinuxPty._get_key_code
_get_key_code(key) ==
    IF key \in DOMAIN _LINUX_KEY_MAP THEN _LINUX_KEY_MAP[key] ELSE key

\* A variant that leaves out key.lower().
CtrlCodeWithoutLower(key0) ==
    IF key0 \in DOMAIN _LINUX_CTRL_KEY_MAP THEN _LINUX_CTRL_KEY_MAP[key0]
    ELSE IF Len(key0) = 1 /\ key0[1] >= 97 /\ key0[1] <= 122
         THEN <<key0[1] - 97 + 1>>
         ELSE _get_key_code(key0)

\* LinuxPty._get_ctrl_combination_key_code
_get_ctrl_combination_key_code(key0) ==
    LET key == lower(key0)
    IN  IF key \in DOMAIN _LINUX_CTRL_KEY_MAP THEN _LINUX_CTRL_KEY_MAP[key]
        ELSE IF Len(key) = 1
             THEN LET unicode == key[1]
                  IN  IF unicode >= 97 /\ unicode <= 122
                      THEN <<unicode - 97 + 1>>
                      ELSE _get_key_code(key)
             ELSE _get_key_code(key)

\* A variant that leaves out key.lower().
AltCodeWithoutLower(key0) ==
    IF key0 \in DOMAIN _LINUX_ALT_KEY_MAP THEN _LINUX_ALT_KEY_MAP[key0]
    ELSE <<27>> \o _get_key_code(key0)

\* LinuxPty._get_alt_combination_key_code
_get_alt_combination_key_code(key0) ==
    LET key == lower(key0)
    IN  IF key \in DOMAIN _LINUX_ALT_KEY_MAP THEN _LINUX_ALT_KEY_MAP[key]
        ELSE <<27>> \o _get_key_code(key)

\* A variant that tests alt before ctrl.
SendKeypressAltFirst(key, ctrl, alt, shift, meta) ==
    IF alt THEN _get_alt_combination_key_code(key)
    ELSE IF ctrl THEN _get_ctrl_combination_key_code(key)
    ELSE _get_key_code(key)

\* A variant that encodes shift the way it encodes alt.
SendKeypressShiftAsAlt(key, ctrl, alt, shift, meta) ==
    IF ctrl THEN _get_ctrl_combination_key_code(key)
    ELSE IF alt \/ shift THEN _get_alt_combination_key_code(key)
    ELSE _get_key_code(key)

\* LinuxPty.send_keypress, up to the call of _send_string: the key code.
send_keypress(key, ctrl, alt, shift, meta) ==
    IF ctrl THEN _get_ctrl_combination_key_code(key)
    ELSE IF alt THEN _get_alt_combination_key_code(key)
    ELSE _get_key_code(key)

\* ------------------------------------------------------------- view size
\* A variant that does not clamp the size.
ViewSizeWithoutClamp(m) ==
    IF m.line_height = 0 \/ m.em_width = 0 THEN <<0, 0>>
    ELSE <<(m.h \div m.line_height) - _bottom_margin,
           (m.w \div m.em_width) - _right_margin>>

\* TerminalView2.view_size
view_size(m) ==
    LET pixel_width == m.w
        pixel_height == m.h
        pixel_per_line == m.line_height
        pixel_per_char == m.em_width
    IN  IF pixel_per_line = 0 \/ pixel_per_char = 0 THEN <<0, 0>>
        ELSE LET nb_columns == (pixel_width \div pixel_per_char) - _right_margin
                 nb_rows == (pixel_height \div pixel_per_line) - _bottom_margin
             IN  <<IF nb_rows < 1 THEN 1 ELSE nb_rows,
                   IF nb_columns < 1 THEN 1 ELSE nb_columns>>

\* ------------------------------------------------------ reference counts
\* The session object is finalised (__del__) when the last strong reference
\* goes: Sublime's (owner_ref), the update thread's local "self"
\* (worker_ref) and the main thread's "instance" during a keypress command.
\* Sublime Text 3 runs plugins on Python 3.3, which clears the weak
\* references to an object before it calls its __del__.
MainBusy == kp_pc # "idle" \/ (del_thread = "main" /\ del_pc \notin {"none", "done"})
WorkerFree == ~(del_thread = "update" /\ del_pc \notin {"none", "done"})
ThreadFinished == pc \in {"done", "crashed"} /\ WorkerFree

Finalize(owner, worker, main, thread) ==
    IF ~owner /\ ~worker /\ ~main /\ del_pc = "none"
    THEN /\ del_pc' = "stop_begin"
         /\ del_thread' = thread
         /\ weak_alive' = FALSE
    ELSE UNCHANGED <<del_pc, del_thread, weak_alive>>

\* TerminalView.py's thread reaches the session through a weakref.proxy: it
\* holds no reference between two method calls (a bound method holds one
\* during a call), and an access after the session is gone raises
\* ReferenceError.
SelfOk == WorkerFree /\ (impl = "TerminalView2.py" \/ weak_alive)

CallReturns ==
    IF impl = "TerminalView2.py"
    THEN worker_ref' = TRUE /\ UNCHANGED <<del_pc, del_thread, weak_alive>>
    ELSE worker_ref' = FALSE /\ Finalize(owner_ref, FALSE, kp_pc # "idle", "update")

\* ---------------------------------------------- TerminalView2._stop, steps
\* A variant of _stop with the test of the flag inverted.
StopTestInverted(shell_is_running) == ~shell_is_running

\* "if self._shell_is_running:"
_stop_test(shell_is_running) == shell_is_running

\* A variant of LinuxPty.stop that signals the child whatever is_running() said.
StopAlwaysKills(result) == TRUE

\* LinuxPty.stop: "if self.is_running(): self._process.kill()"
stop_kills(result) == result

\* A variant of _stop that leaves the flag set.
FlagLeftSet == TRUE

\* _stop sets the flag after LinuxPty.stop has returned.
_stop_flag == FALSE

display_vars == <<_buffer_contents, _color_regions, view_regions, read_only, dirty, todo,
                  had_dirty_lines, applied, row_color_map, registered, cursor,
                  last_cursor_pos, view_text, sel>>
process_vars == <<_process, child_alive, kills, stop_result, _shell_is_running>>
del_vars == <<del_pc, del_thread, weak_alive>>
kp_vars == <<kp_pc, kp_request, kp_outcome, kp_keycode, kp_stopped>>
size_vars == <<metrics, _rows_cols, reported, notified>>
focus_vars == <<_active_instance, instances, view_focus, delivered>>
config_vars == <<impl, show_colors, has_shell, _right_margin, _bottom_margin, _pty, _pts,
                 focus_vars>>
scroll_vars == <<_scroll, index, direction, scroll_pending>>

\* ------------------------------------------------------- the update thread
\* _main_update_loop, the head of the loop.  TerminalView2.py dereferences a
\* weak reference and keeps the session in "self"; TerminalView.py reads
\* the flag through a weakref.proxy, which raises once the session is gone.
LoopHead ==
    /\ pc = "loop_head" /\ WorkerFree
    /\ IF impl = "TerminalView2.py"
       THEN IF ~weak_alive
            THEN pc' = "exit" /\ UNCHANGED worker_ref
            ELSE /\ worker_ref' = TRUE
                 /\ pc' = IF _shell_is_running THEN "poll" ELSE "exit"
       ELSE /\ UNCHANGED worker_ref
            /\ pc' = IF ~weak_alive THEN "crashed"
                     ELSE IF _shell_is_running THEN "poll" ELSE "exit"
    /\ out' = <<>>
    /\ UNCHANGED <<config_vars, scroll_vars, owner_ref, del_vars, process_vars, observed_exit,
                   view_valid, size_vars, _last_update, active, kp_vars, display_vars>>

\* _poll_shell_output: receive_output returns None when the process is not
\* running or nothing is ready.
PollNothing ==
    /\ pc = "poll" /\ SelfOk
    /\ pc' = "update_view"
    /\ out' = <<>>
    /\ UNCHANGED <<config_vars, scroll_vars, worker_ref, owner_ref, del_vars, process_vars,
                   observed_exit, view_valid, size_vars, _last_update, active, kp_vars,
                   display_vars>>

\* _poll_shell_output: data was read and fed to the emulator, which marks
\* rows dirty (d: row -> text or None) and leaves its cursor at cursor_pos.
Merge(old, d) == [r \in (DOMAIN old) \cup (DOMAIN d) |-> IF r \in DOMAIN d THEN d[r] ELSE old[r]]

Poll(d, cursor_pos) ==
    /\ pc = "poll" /\ SelfOk
    /\ is_running(_process, child_alive)
    /\ dirty' = Merge(dirty, d)
    /\ cursor' = cursor_pos
    /\ out' = << <<"feed">> >>
    /\ pc' = "update_view"
    /\ UNCHANGED <<config_vars, scroll_vars, worker_ref, owner_ref, del_vars, process_vars,
                   observed_exit, view_valid, size_vars, _last_update, active, kp_vars,
                   _buffer_contents, _color_regions, view_regions, read_only, todo,
                   had_dirty_lines, applied, row_color_map, registered,
                   last_cursor_pos, view_text, sel>>

\* update_view calls _update_scrolling: "if self._scroll is not None:"
ScrollTest ==
    /\ pc = "update_view" /\ SelfOk
    /\ IF _scroll # None
       THEN pc' = "scroll_index" /\ scroll_pending' = {_scroll}
       ELSE pc' = "dirty_lines" /\ scroll_pending' = {}
    /\ worker_ref' = TRUE
    /\ out' = <<>>
    /\ UNCHANGED <<config_vars, _scroll, index, direction, owner_ref, del_vars,
                   process_vars, observed_exit, view_valid, size_vars, _last_update,
                   active, kp_vars, display_vars>>

\* "index = self._scroll[0]"
ScrollIndex ==
    /\ pc = "scroll_index" /\ SelfOk
    /\ index' = _scroll[1]
    /\ pc' = "scroll_direction"
    /\ out' = <<>>
    /\ UNCHANGED <<config_vars, _scroll, direction, scroll_pending, worker_ref,
                   owner_ref, del_vars, process_vars, observed_exit, view_valid,
                   size_vars, _last_update, active, kp_vars, display_vars>>

\* "direction = self._scroll[1]"
ScrollDirection ==
    /\ pc = "scroll_direction" /\ SelfOk
    /\ direction' = _scroll[2]
    /\ pc' = "scroll_navigate"
    /\ out' = <<>>
    /\ UNCHANGED <<config_vars, _scroll, index, scroll_pending, worker_ref,
                   owner_ref, del_vars, process_vars, observed_exit, view_valid,
                   size_vars, _last_update, active, kp_vars, display_vars>>

\* The emulator method _update_scrolling calls for index and direction.
Navigation(idx, dir) ==
    IF idx = "line"
    THEN (IF dir = "up" THEN "prev_line" ELSE "next_line")
    ELSE (IF dir = "up" THEN "prev_page" ELSE "next_page")

ScrollNavigate ==
    /\ pc = "scroll_navigate" /\ SelfOk
    /\ out' = << <<Navigation(index, direction)>> >>
    /\ pc' = "scroll_clear"
    /\ UNCHANGED <<config_vars, scroll_vars, worker_ref, owner_ref, del_vars,
                   process_vars, observed_exit, view_valid, size_vars, _last_update,
                   active, kp_vars, display_vars>>

\* "self._scroll = None", and the return of _update_scrolling.
ScrollClear ==
    /\ pc = "scroll_clear" /\ SelfOk
    /\ _scroll' = None
    /\ index' = "" /\ direction' = ""
    /\ scroll_pending' = {}
    /\ pc' = "dirty_lines"
    /\ out' = <<>>
    /\ UNCHANGED <<config_vars, worker_ref, owner_ref, del_vars, process_vars,
                   observed_exit, view_valid, size_vars, _last_update, active,
                   kp_vars, display_vars>>

\* update_view from the dirty lines up to the call of _update_lines.
UpdateViewBegin ==
    /\ pc = "dirty_lines" /\ SelfOk
    /\ IF DOMAIN dirty # {}
       THEN /\ out' = << <<"set_viewport_position", 0, 0>>, <<"set_read_only", FALSE>> >>
            /\ read_only' = FALSE
            /\ todo' = Sorted(DOMAIN dirty)
            /\ applied' = <<>>
            /\ last_cursor_pos' = None
            /\ pc' = "update_lines"
       ELSE /\ out' = <<>>
            /\ pc' = "update_cursor"
            /\ UNCHANGED <<read_only, todo, applied, last_cursor_pos>>
    /\ had_dirty_lines' = (DOMAIN dirty # {})
    /\ worker_ref' = TRUE
    /\ UNCHANGED <<config_vars, scroll_vars, owner_ref, del_vars, process_vars, observed_exit,
                   view_valid, size_vars, _last_update, active, kp_vars,
                   _buffer_contents, _color_regions, view_regions, dirty, row_color_map,
                   registered, cursor, view_text, sel>>

\* The keys of the add_regions calls of a step, in the order of the calls.
IsAddRegions(c) == c[1] = "add_regions"
RECURSIVE KeysOf(_)
KeysOf(calls) == IF calls = <<>> THEN <<>> ELSE <<Head(calls)[2]>> \o KeysOf(Tail(calls))
AddedKeys(calls) == KeysOf(SelectSeq(calls, IsAddRegions))

\* TerminalViewReplaceCommand and TerminalViewEraseCommand: view.replace and
\* view.erase on the region [a, b) of the buffer; a read-only view rejects
\* the edit.
Clamp(n, size) == IF n < 0 THEN 0 ELSE IF n > size THEN size ELSE n
view_replace(text, a, b, content) ==
    LET lo == Clamp(a, Len(text))
        hi == Clamp(b, Len(text))
    IN  SubSeq(text, 1, lo) \o content \o SubSeq(text, hi + 1, Len(text))
RECURSIVE RunCommands(_, _, _)
RunCommands(text, ro, calls) ==
    IF calls = <<>> THEN text
    ELSE LET c == Head(calls)
             edited == IF ro THEN text
                       ELSE IF c[1] = "terminal_view_replace"
                       THEN view_replace(text, c[2], c[3], c[4])
                       ELSE IF c[1] = "terminal_view_erase"
                       THEN view_replace(text, c[2], c[3], <<>>)
                       ELSE text
         IN  RunCommands(edited, ro, Tail(calls))

\* One iteration of the for loop of _update_lines on the lowest remaining
\* dirty row; row_color_map is the emulator's colour map of that row (empty
\* when colours are off or the row has no entry).  An exception leaves the
\* thread.
UpdateLine(color_map_of_line) ==
    /\ pc = "update_lines" /\ todo # <<>>
    /\ (~show_colors) => color_map_of_line = <<>>
    /\ row_color_map' = color_map_of_line
    /\ LET line_no == Head(todo)
           r == _update_lines_step(_buffer_contents, _color_regions, view_regions,
                                   line_no, dirty[line_no], color_map_of_line)
       IN  /\ _buffer_contents' = r.bc
           /\ _color_regions' = r.cr
           /\ view_regions' = r.vr
           /\ registered' = Put(registered, line_no, AddedKeys(r.calls))
           /\ view_text' = RunCommands(view_text, read_only, r.calls)
           /\ out' = r.calls
           /\ IF r.raised
              THEN /\ pc' = "crashed"
                   /\ worker_ref' = FALSE
                   /\ todo' = todo
                   /\ applied' = applied
                   /\ Finalize(owner_ref, FALSE, kp_pc # "idle", "update")
              ELSE /\ pc' = pc
                   /\ todo' = Tail(todo)
                   /\ applied' = Append(applied, line_no)
                   /\ UNCHANGED <<worker_ref, del_vars>>
    /\ UNCHANGED <<config_vars, scroll_vars, owner_ref, process_vars, observed_exit, view_valid,
                   size_vars, _last_update, active, kp_vars, read_only, dirty,
                   had_dirty_lines, cursor, last_cursor_pos, sel>>

\* The end of _update_lines and the emulator's clear_dirty.
UpdateLinesEnd ==
    /\ pc = "update_lines" /\ todo = <<>>
    /\ read_only' = TRUE
    /\ dirty' = EmptyDict
    /\ applied' = <<>>
    /\ row_color_map' = <<>>
    /\ out' = << <<"set_read_only", TRUE>>, <<"clear_dirty">> >>
    /\ pc' = "update_cursor"
    /\ UNCHANGED <<config_vars, scroll_vars, worker_ref, owner_ref, del_vars, process_vars,
                   observed_exit, view_valid, size_vars, _last_update, active, kp_vars,
                   _buffer_contents, _color_regions, view_regions, todo,
                   registered, had_dirty_lines, cursor, last_cursor_pos, view_text, sel>>

\* view.text_point(row, col): the offset of the start of the row-th line of
\* the buffer (the buffer's size when it has fewer lines) plus col, at most
\* the buffer's size.
RECURSIVE LineStart(_, _, _)
LineStart(text, row, from) ==
    IF row = 0 \/ from > Len(text) THEN from - 1
    ELSE LineStart(text, IF text[from] = "\n" THEN row - 1 ELSE row, from + 1)
text_point(text, row, col) == Clamp(LineStart(text, row, 1) + col, Len(text))

\* A variant that takes a stored (0, 0) for no stored position.
UpdateCursorZeroIsUnset(text, cursor_pos, last) ==
    IF last # None /\ last # <<0, 0>> /\ last[1] = cursor_pos[1] /\ last[2] = cursor_pos[2]
    THEN [moved |-> FALSE, last |-> last, calls |-> <<>>]
    ELSE LET tp == text_point(text, cursor_pos[1], cursor_pos[2])
         IN  [moved |-> TRUE, last |-> cursor_pos,
              calls |-> << <<"text_point", cursor_pos[1], cursor_pos[2]>>,
                           <<"sel_clear">>, <<"sel_add", tp, tp>>,
                           <<"set_last_cursor_pos", cursor_pos[1], cursor_pos[2]>> >>]

\* _update_cursor: nothing is done when the stored position is set and equal
\* to the emulator's cursor; otherwise the selection becomes the one empty
\* region at text_point and the position is stored.
_update_cursor(text, cursor_pos, last) ==
    IF last # None /\ last[1] = cursor_pos[1] /\ last[2] = cursor_pos[2]
    THEN [moved |-> FALSE, last |-> last, calls |-> <<>>]
    ELSE LET tp == text_point(text, cursor_pos[1], cursor_pos[2])
         IN  [moved |-> TRUE, last |-> cursor_pos,
              calls |-> << <<"text_point", cursor_pos[1], cursor_pos[2]>>,
                           <<"sel_clear">>, <<"sel_add", tp, tp>>,
                           <<"set_last_cursor_pos", cursor_pos[1], cursor_pos[2]>> >>]

UpdateCursor ==
    /\ pc = "update_cursor"
    /\ LET r == _update_cursor(view_text, cursor, last_cursor_pos)
       IN  /\ last_cursor_pos' = r.last
           /\ sel' = IF r.moved THEN << <<r.calls[3][2], r.calls[3][3]>> >> ELSE sel
           /\ out' = r.calls
    /\ pc' = "last_update"
    /\ UNCHANGED <<config_vars, scroll_vars, worker_ref, owner_ref, del_vars, process_vars,
                   observed_exit, view_valid, size_vars, _last_update, active, kp_vars,
                   _buffer_contents, _color_regions, view_regions, read_only, dirty, todo,
                   had_dirty_lines, applied, row_color_map, registered, cursor,
                   view_text>>

\* The end of update_view: it reads the clock (now) and reports failure when
\* the reading equals the previous one.
UpdateViewEnd(now) ==
    /\ pc = "last_update"
    /\ _last_update' = now
    /\ pc' = IF now = _last_update THEN "stop_begin" ELSE "resize"
    /\ CallReturns
    /\ out' = <<>>
    /\ UNCHANGED <<config_vars, scroll_vars, owner_ref, process_vars, observed_exit,
                   view_valid, size_vars, active, kp_vars, display_vars>>

\* _resize_screen_if_needed
Abs(x) == IF x < 0 THEN -x ELSE x

\* A variant that looks at the rows only.
ResizeOnRowsOnly(rows_cols, size) ==
    LET row_diff == Abs(rows_cols[1] - size[1])
    IN  row_diff # 0

_resize_screen_if_needed(rows_cols, size) ==
    LET row_diff == Abs(rows_cols[1] - size[1])
        col_diff == Abs(rows_cols[2] - size[2])
    IN  row_diff # 0 \/ col_diff # 0

\* The record of calls: one more call with a size, counted up to MaxNotified.
MaxNotified == 2
Count(counts, size) ==
    Put(counts, size,
        IF size \in DOMAIN counts
        THEN (IF counts[size] < MaxNotified THEN counts[size] + 1 ELSE counts[size])
        ELSE 1)

Resize ==
    /\ pc = "resize" /\ SelfOk
    /\ LET size == view_size(metrics)
       IN  IF _resize_screen_if_needed(_rows_cols, size)
           THEN /\ _rows_cols' = size
                /\ out' = update_screen_size(_process, child_alive, size[1], size[2])
                            \o << <<"resize", size[1], size[2]>> >>
                /\ notified' = Count(notified, size)
                /\ reported' = reported \cup {size}
           ELSE /\ out' = <<>>
                /\ reported' = reported \cup {size}
                /\ UNCHANGED <<_rows_cols, notified>>
    /\ pc' = "liveness"
    /\ UNCHANGED <<config_vars, scroll_vars, worker_ref, owner_ref, del_vars, process_vars,
                   observed_exit, view_valid, metrics, _last_update, active, kp_vars,
                   display_vars>>

\* "if not self.view.is_valid() or not self._shell.is_running():"
Liveness ==
    /\ pc = "liveness" /\ SelfOk
    /\ IF ~view_valid \/ ~is_running(_process, child_alive)
       THEN /\ pc' = "stop_begin"
            /\ observed_exit' = (observed_exit \/ (view_valid /\ ~is_running(_process, child_alive)))
       ELSE /\ pc' = "pace"
            /\ UNCHANGED observed_exit
    /\ had_dirty_lines' = FALSE
    /\ out' = <<>>
    /\ UNCHANGED <<config_vars, scroll_vars, worker_ref, owner_ref, del_vars, process_vars,
                   view_valid, size_vars, _last_update, active, kp_vars,
                   _buffer_contents, _color_regions, view_regions, read_only, dirty, todo,
                   applied, row_color_map, registered, cursor, last_cursor_pos, view_text,
                   sel>>

\* _stop on the update thread: the flag test and LinuxPty.stop's is_running().
StopBegin ==
    /\ pc = "stop_begin" /\ SelfOk
    /\ IF _stop_test(_shell_is_running)
       THEN /\ stop_result' = is_running(_process, child_alive)
            /\ pc' = "stop_kill"
            /\ worker_ref' = TRUE
            /\ UNCHANGED del_vars
       ELSE /\ pc' = "exit"
            /\ CallReturns
            /\ UNCHANGED stop_result
    /\ out' = <<>>
    /\ UNCHANGED <<config_vars, scroll_vars, owner_ref, _process, child_alive, kills,
                   _shell_is_running, observed_exit, view_valid, size_vars,
                   _last_update, active, kp_vars, display_vars>>

\* LinuxPty.stop: kill the child if is_running() was true, then forget it.
StopKill ==
    /\ pc = "stop_kill"
    /\ IF stop_kills(stop_result)
       THEN IF _process
            THEN /\ kills' = kills + 1
                 /\ child_alive' = FALSE
                 /\ _process' = FALSE
                 /\ out' = << <<"kill">> >>
                 /\ pc' = "stop_end"
                 /\ UNCHANGED <<worker_ref, del_vars>>
            ELSE /\ out' = << <<"raise", "AttributeError">> >>
                 /\ pc' = "crashed"
                 /\ worker_ref' = FALSE
                 /\ Finalize(owner_ref, FALSE, kp_pc # "idle", "update")
                 /\ UNCHANGED <<kills, child_alive, _process>>
       ELSE /\ _process' = FALSE
            /\ out' = <<>>
            /\ pc' = "stop_end"
            /\ UNCHANGED <<kills, child_alive, worker_ref, del_vars>>
    /\ stop_result' = FALSE
    /\ UNCHANGED <<config_vars, scroll_vars, owner_ref, _shell_is_running, observed_exit,
                   view_valid, size_vars, _last_update, active, kp_vars, display_vars>>

\* The end of _stop, and the break that follows it.
StopEnd ==
    /\ pc = "stop_end"
    /\ _shell_is_running' = _stop_flag
    /\ pc' = "exit"
    /\ CallReturns
    /\ out' = <<>>
    /\ UNCHANGED <<config_vars, scroll_vars, owner_ref, _process, child_alive, kills,
                   stop_result, observed_exit, view_valid, size_vars, _last_update,
                   active, kp_vars, display_vars>>

\* The end of an iteration: when time is left the thread drops "self" and
\* sleeps, otherwise it goes straight to the next iteration.
Pace(time_left_positive) ==
    /\ pc = "pace"
    /\ pc' = "loop_head"
    /\ out' = <<>>
    /\ IF time_left_positive /\ impl = "TerminalView2.py"
       THEN /\ worker_ref' = FALSE
            /\ Finalize(owner_ref, FALSE, kp_pc # "idle", "update")
       ELSE UNCHANGED <<worker_ref, del_vars>>
    /\ UNCHANGED <<config_vars, scroll_vars, owner_ref, process_vars, observed_exit, view_valid,
                   size_vars, _last_update, active, kp_vars, display_vars>>

\* The loop was left: the function returns and its "self" goes.
Exit ==
    /\ pc = "exit"
    /\ pc' = "done"
    /\ worker_ref' = FALSE
    /\ Finalize(owner_ref, FALSE, kp_pc # "idle", "update")
    /\ out' = << <<"print", "goodbye from the update thread">> >>
    /\ UNCHANGED <<config_vars, scroll_vars, owner_ref, process_vars, observed_exit, view_valid,
                   size_vars, _last_update, active, kp_vars, display_vars>>

\* An access through the proxy after the session is gone.
ProxyError ==
    /\ pc \in {"poll", "update_view", "resize", "liveness", "stop_begin"}
    /\ WorkerFree /\ impl = "TerminalView.py" /\ ~weak_alive
    /\ pc' = "crashed"
    /\ out' = << <<"raise", "ReferenceError">> >>
    /\ UNCHANGED <<config_vars, scroll_vars, worker_ref, owner_ref, del_vars, process_vars,
                   observed_exit, view_valid, size_vars, _last_update, active, kp_vars,
                   display_vars>>

\* ------------------------------------------------------------------ __del__
\* __del__ calls _stop, joins the update thread and logs.  The steps of
\* _stop are those of the update thread's.
DelStopBegin ==
    /\ del_pc = "stop_begin"
    /\ IF _stop_test(_shell_is_running)
       THEN /\ stop_result' = is_running(_process, child_alive)
            /\ del_pc' = "stop_kill"
       ELSE /\ del_pc' = "join"
            /\ UNCHANGED stop_result
    /\ out' = <<>>
    /\ UNCHANGED <<config_vars, scroll_vars, pc, worker_ref, owner_ref, del_thread, weak_alive,
                   _process, child_alive, kills, _shell_is_running, observed_exit,
                   view_valid, size_vars, _last_update, active, kp_vars, display_vars>>

DelStopKill ==
    /\ del_pc = "stop_kill"
    /\ IF stop_kills(stop_result)
       THEN IF _process
            THEN /\ kills' = kills + 1
                 /\ child_alive' = FALSE
                 /\ _process' = FALSE
                 /\ out' = << <<"kill">> >>
                 /\ del_pc' = "stop_end"
            ELSE /\ out' = << <<"raise", "AttributeError">> >>
                 /\ del_pc' = "done"
                 /\ UNCHANGED <<kills, child_alive, _process>>
       ELSE /\ _process' = FALSE
            /\ out' = <<>>
            /\ del_pc' = "stop_end"
            /\ UNCHANGED <<kills, child_alive>>
    /\ stop_result' = FALSE
    /\ UNCHANGED <<config_vars, scroll_vars, pc, worker_ref, owner_ref, del_thread, weak_alive,
                   _shell_is_running, observed_exit, view_valid, size_vars,
                   _last_update, active, kp_vars, display_vars>>

DelStopEnd ==
    /\ del_pc = "stop_end"
    /\ _shell_is_running' = _stop_flag
    /\ del_pc' = "join"
    /\ out' = <<>>
    /\ UNCHANGED <<config_vars, scroll_vars, pc, worker_ref, owner_ref, del_thread, weak_alive,
                   _process, child_alive, kills, stop_result, observed_exit,
                   view_valid, size_vars, _last_update, active, kp_vars, display_vars>>

\* update_thread.join(): it returns when the thread has finished, and raises
\* RuntimeError when called on the update thread itself.  TerminalView2.py
\* catches the error; in TerminalView.py it ends __del__.
DelJoin ==
    /\ del_pc = "join"
    /\ IF del_thread = "update"
       THEN IF impl = "TerminalView2.py"
            THEN del_pc' = "finish" /\ out' = <<>>
            ELSE del_pc' = "done" /\ out' = << <<"raise", "RuntimeError">> >>
       ELSE /\ ThreadFinished
            /\ del_pc' = "finish"
            /\ out' = <<>>
    /\ UNCHANGED <<config_vars, scroll_vars, pc, worker_ref, owner_ref, del_thread, weak_alive,
                   process_vars, observed_exit, view_valid, size_vars, _last_update,
                   active, kp_vars, display_vars>>

DelFinish ==
    /\ del_pc = "finish"
    /\ del_pc' = "done"
    /\ out' = << <<"log", "goodbye">> >>
    /\ UNCHANGED <<config_vars, scroll_vars, pc, worker_ref, owner_ref, del_thread, weak_alive,
                   process_vars, observed_exit, view_valid, size_vars, _last_update,
                   active, kp_vars, display_vars>>

\* ------------------------------------------------------------ main thread
\* TerminalView2.__init__ from the start of the shell on: LinuxPty's
\* constructor returns (spawn_ok) or raises OSError, which is shown in an
\* error message; then the update thread is started.
SpawnFlagAlwaysSet(spawn_ok) == TRUE

spawn_flag(spawn_ok) == spawn_ok

Construct(spawn_ok) ==
    /\ pc = "construct"
    /\ has_shell' = spawn_ok
    /\ _process' = spawn_ok
    /\ child_alive' = spawn_ok
    /\ _shell_is_running' = spawn_flag(spawn_ok)
    \* os.openpty() opens both descriptors; the OSError comes from it or
    \* from Popen, which leaves them open.
    /\ \E opened \in BOOLEAN :
           /\ spawn_ok => opened
           /\ _pty' = opened /\ _pts' = opened
    /\ out' = IF spawn_ok THEN <<>> ELSE << <<"error_message", "OSError">> >>
    /\ pc' = "loop_head"
    /\ UNCHANGED <<impl, show_colors, _right_margin, _bottom_margin, focus_vars, scroll_vars,
                   worker_ref, owner_ref, del_vars, kills, stop_result, observed_exit, view_valid, size_vars, _last_update, active,
                   kp_vars, display_vars>>

\* Sublime lets go of the listener (the view was closed, or the plugin is
\* unloaded).
OwnerDrop ==
    /\ pc # "construct"
    /\ owner_ref /\ ~MainBusy
    /\ owner_ref' = FALSE
    /\ Finalize(FALSE, worker_ref, FALSE, "main")
    /\ out' = <<>>
    /\ UNCHANGED <<config_vars, scroll_vars, pc, worker_ref, process_vars, observed_exit,
                   view_valid, size_vars, _last_update, active, kp_vars, display_vars>>

\* on_activated / on_deactivated
OnActivated ==
    /\ pc # "construct"
    /\ owner_ref /\ ~MainBusy /\ ~active
    /\ active' = TRUE
    /\ out' = <<>>
    /\ UNCHANGED <<config_vars, scroll_vars, pc, worker_ref, owner_ref, del_vars, process_vars,
                   observed_exit, view_valid, size_vars, _last_update, kp_vars,
                   display_vars>>

OnDeactivated ==
    /\ owner_ref /\ ~MainBusy /\ active
    /\ active' = FALSE
    /\ out' = <<>>
    /\ UNCHANGED <<config_vars, scroll_vars, pc, worker_ref, owner_ref, del_vars, process_vars,
                   observed_exit, view_valid, size_vars, _last_update, kp_vars,
                   display_vars>>

\* TerminalViewKeypressCommand.run.  kwargs["key"] is a string (key) or not
\* (key_is_str false); mods is the rest of kwargs, a dict from modifier
\* names to booleans.  The outcome is one of: an error message, no active
\* instance, or the key code handed to LinuxPty._send_string.
Modifiers == {"ctrl", "alt", "shift", "meta"}
Given(mods, name) == IF name \in DOMAIN mods THEN mods[name] ELSE FALSE

\* A variant that sets every modifier to False, given or not.
DefaultsOverwrite(mods) == [name \in Modifiers |-> FALSE]

\* 'if "meta" not in kwargs: kwargs["meta"] = False', and the same for alt,
\* ctrl and shift.
kwargs_defaults(mods) ==
    [name \in Modifiers |-> IF name \in DOMAIN mods THEN mods[name] ELSE FALSE]

\* A variant of the command without the test of meta.
KeypressRunWithoutMetaTest(key_is_str, key, mods, instance) ==
    IF ~key_is_str
    THEN [outcome |-> "error_message",
          text |-> "Terminal View: Got keypress with non-string key"]
    ELSE IF ~instance
    THEN [outcome |-> "no_instance"]
    ELSE LET kwargs == kwargs_defaults(mods)
         IN  [outcome |-> "send",
              args |-> <<key, kwargs["ctrl"], kwargs["alt"], kwargs["shift"],
                         kwargs["meta"]>>,
              keycode |-> send_keypress(key, kwargs["ctrl"], kwargs["alt"],
                                        kwargs["shift"], kwargs["meta"])]

TerminalViewKeypressCommand_run(key_is_str, key, mods, instance) ==
    IF ~key_is_str
    THEN [outcome |-> "error_message",
          text |-> "Terminal View: Got keypress with non-string key"]
    ELSE IF "meta" \in DOMAIN mods /\ mods["meta"]
    THEN [outcome |-> "error_message",
          text |-> "Terminal View: Meta key is not supported yet"]
    ELSE IF ~instance
    THEN [outcome |-> "no_instance"]
    ELSE LET kwargs == kwargs_defaults(mods)
         IN  [outcome |-> "send",
              args |-> <<key, kwargs["ctrl"], kwargs["alt"], kwargs["shift"],
                         kwargs["meta"]>>,
              keycode |-> send_keypress(key, kwargs["ctrl"], kwargs["alt"],
                                        kwargs["shift"], kwargs["meta"])]

\* get_active_instance: the weak reference _active_instance, dereferenced.
get_active_instance == active /\ weak_alive

KeypressCommand(key_is_str, key, mods) ==
    /\ ~MainBusy
    /\ LET r == TerminalViewKeypressCommand_run(key_is_str, key, mods,
                                                get_active_instance)
       IN  IF r.outcome = "send" /\ has_shell
           THEN /\ kp_pc' = "is_running"
                /\ kp_keycode' = r.keycode
                /\ kp_stopped' = ~is_running(_process, child_alive)
                /\ out' = << <<"terminal_view_keypress_callback">> \o r.args >>
           ELSE IF r.outcome = "send"
           THEN /\ out' = << <<"terminal_view_keypress_callback">> \o r.args,
                             <<"raise", "AttributeError">> >>
                /\ UNCHANGED <<kp_pc, kp_keycode, kp_stopped>>
           ELSE /\ out' = IF r.outcome = "error_message"
                          THEN << <<"error_message", r.text>> >> ELSE <<>>
                /\ UNCHANGED <<kp_pc, kp_keycode, kp_stopped>>
    /\ kp_outcome' = TerminalViewKeypressCommand_run(key_is_str, key, mods,
                                                     get_active_instance).outcome
    /\ kp_request' = [key_is_str |-> key_is_str, key |-> key, mods |-> mods]
    /\ UNCHANGED <<config_vars, scroll_vars, pc, worker_ref, owner_ref, del_vars, process_vars,
                   observed_exit, view_valid, size_vars, _last_update, active,
                   display_vars>>

\* The command returns: the main thread's reference to the session goes.
KpReturn ==
    /\ kp_pc' = "idle"
    /\ UNCHANGED <<kp_request, kp_outcome, kp_keycode, kp_stopped>>
    /\ Finalize(owner_ref, worker_ref, FALSE, "main")

\* LinuxPty._send_string, is_running(): "self._process is not None"
KpIsRunning ==
    /\ kp_pc = "is_running"
    /\ IF _process
       THEN kp_pc' = "poll" /\ UNCHANGED <<kp_request, kp_outcome, kp_keycode, kp_stopped, del_vars>>
       ELSE KpReturn
    /\ out' = <<>>
    /\ UNCHANGED <<config_vars, scroll_vars, pc, worker_ref, owner_ref, process_vars,
                   observed_exit, view_valid, size_vars, _last_update, active,
                   display_vars>>

\* is_running(): "self._process.poll() is None"
KpPoll ==
    /\ kp_pc = "poll"
    /\ IF ~_process
       THEN KpReturn /\ out' = << <<"raise", "AttributeError">> >>
       ELSE IF child_alive
       THEN /\ kp_pc' = "write" /\ out' = <<>>
            /\ UNCHANGED <<kp_request, kp_outcome, kp_keycode, kp_stopped, del_vars>>
       ELSE KpReturn /\ out' = <<>>
    /\ UNCHANGED <<config_vars, scroll_vars, pc, worker_ref, owner_ref, process_vars,
                   observed_exit, view_valid, size_vars, _last_update, active,
                   display_vars>>

\* os.write(self._pty, string.encode('UTF-8'))
KpWrite ==
    /\ kp_pc = "write"
    /\ out' = << <<"os.write", encode_utf8(kp_keycode)>> >>
    /\ KpReturn
    /\ UNCHANGED <<config_vars, scroll_vars, pc, worker_ref, owner_ref, process_vars,
                   observed_exit, view_valid, size_vars, _last_update, active,
                   display_vars>>

\* ------------------------------------------------------------ environment
\* An input handler puts a request into the scroll slot (the last writer
\* wins); it runs on the main thread while the session exists.
ScrollUnits == {"line", "page"}
ScrollDirections == {"up", "down"}

ScrollRequest(unit, dir) ==
    /\ weak_alive /\ ~MainBusy
    /\ _scroll # <<unit, dir>>
    /\ _scroll' = <<unit, dir>>
    /\ scroll_pending' = IF pc \in {"scroll_index", "scroll_direction", "scroll_navigate",
                                     "scroll_clear"}
                         THEN scroll_pending \cup {<<unit, dir>>}
                         ELSE scroll_pending
    /\ out' = <<>>
    /\ UNCHANGED <<config_vars, index, direction, pc, worker_ref, owner_ref, del_vars,
                   process_vars, observed_exit, view_valid, size_vars, _last_update,
                   active, kp_vars, display_vars>>

\* The child exits on its own.
ChildExit ==
    /\ child_alive
    /\ child_alive' = FALSE
    /\ out' = <<>>
    /\ UNCHANGED <<config_vars, scroll_vars, pc, worker_ref, owner_ref, del_vars, _process, kills,
                   stop_result, _shell_is_running, observed_exit, view_valid,
                   size_vars, _last_update, active, kp_vars, display_vars>>

\* The view is closed or reloaded.
ViewInvalidate ==
    /\ view_valid
    /\ view_valid' = FALSE
    /\ out' = <<>>
    /\ UNCHANGED <<config_vars, scroll_vars, pc, worker_ref, owner_ref, del_vars, process_vars,
                   observed_exit, size_vars, _last_update, active, kp_vars,
                   display_vars>>

\* The view's layout changes.
ViewportChange(m) ==
    /\ m # metrics
    /\ metrics' = m
    /\ out' = <<>>
    /\ UNCHANGED <<config_vars, scroll_vars, pc, worker_ref, owner_ref, del_vars, process_vars,
                   observed_exit, view_valid, _rows_cols, reported, notified,
                   _last_update, active, kp_vars, display_vars>>

\* ------------------------------------------------------ inputs and bounds
\* Readings of the clock.
MaxClock == 2
Clock == 1..MaxClock

\* A styled run of the colour map at column idx.
Run(idx) == [idx |-> idx, field_length |-> idx + 1, color |-> <<7, 0>>]

\* Colour maps of a row, as the sequence of entries in iteration order.
RECURSIVE RunsUpTo(_)
RunsUpTo(n) == IF n < 0 THEN <<>> ELSE Append(RunsUpTo(n - 1), Run(n))
ColorMaps == {RunsUpTo(n) : n \in -1..MaxCol}

\* Dirty-lines mappings over a set of rows.
DirtyMaps(rows) ==
    UNION {[S -> Contents \cup {None}] : S \in (SUBSET rows) \ {{}}}

Metrics(w, h, line_height, em_width) ==
    [w |-> w, h |-> h, line_height |-> line_height, em_width |-> em_width]
\* With the default margins these give the sizes (1, 1), (1, 2), (0, 0).
ViewMetrics == {Metrics(20, 10, 10, 5), Metrics(25, 10, 10, 5), Metrics(20, 10, 0, 5)}

\* A viewport of 300 x 200 with lines of 10 and characters of 5; the same
\* before the layout is known (a line height or a character width of 0); and
\* a viewport smaller than a line and a character.
SizeMetrics ==
    {Metrics(300, 200, 10, 5), Metrics(300, 200, 0, 5), Metrics(300, 200, 10, 0),
     Metrics(4, 5, 10, 5)}
RightMargins == {1, 3}
BottomMargins == {0, 1}

\* Key names: "a", "A", "enter", "Enter", "[", "up", "UP", "1" and the
\* letter U+00C9 (E with acute accent).
KeyNames ==
    {<<97>>, <<65>>, <<101, 110, 116, 101, 114>>, <<69, 110, 116, 101, 114>>, <<91>>,
     <<117, 112>>, <<85, 80>>, <<49>>, <<201>>}
ModifierDicts == UNION {[S -> BOOLEAN] : S \in SUBSET Modifiers}
KeypressRequests ==
    [key_is_str : BOOLEAN, key : KeyNames, mods : ModifierDicts]
NoRequest == [key_is_str |-> TRUE, key |-> <<>>, mods |-> EmptyDict]

\* ------------------------------------------------------------------- Init
\* The margins when the settings file does not set them:
\* settings.get("terminal_view_right_margin", 3) and
\* settings.get("terminal_view_bottom_margin", 0).
DefaultMargins ==
    /\ _right_margin = 3
    /\ _bottom_margin = 0

\* The sessions of the class: TerminalView2._instances holds them by view
\* id, _active_instance is None at the start (line 48).
MaxSessions == 3
Sessions == {<<"session", n>> : n \in 1..MaxSessions}

InitFocus ==
    /\ _active_instance = None
    /\ instances = Sessions
    /\ view_focus = {}
    /\ delivered = None

InitSessionState ==
    /\ InitFocus
    /\ has_shell = TRUE
    /\ _pty = TRUE /\ _pts = TRUE
    /\ _scroll = None
    /\ index = "" /\ direction = ""
    /\ scroll_pending = {}
    /\ pc = "loop_head"
    /\ worker_ref = FALSE
    /\ owner_ref = TRUE
    /\ weak_alive = TRUE
    /\ del_pc = "none"
    /\ del_thread = "none"
    /\ stop_result = FALSE
    /\ _shell_is_running = TRUE
    /\ _process = TRUE
    /\ child_alive = TRUE
    /\ kills = 0
    /\ observed_exit = FALSE
    /\ view_valid = TRUE
    /\ _rows_cols = <<0, 0>>
    /\ reported = {}
    /\ notified = EmptyDict
    /\ _last_update = 0
    /\ active = FALSE
    /\ kp_pc = "idle"
    /\ kp_outcome = "none"
    /\ kp_keycode = <<>>
    /\ kp_stopped = FALSE
    /\ _buffer_contents = EmptyDict
    /\ _color_regions = EmptyDict
    /\ view_regions = EmptyDict
    /\ read_only = TRUE
    /\ dirty = EmptyDict
    /\ todo = <<>>
    /\ had_dirty_lines = FALSE
    /\ applied = <<>>
    /\ row_color_map = <<>>
    /\ registered = EmptyDict
    /\ cursor = <<0, 0>>
    /\ last_cursor_pos = None
    /\ view_text = <<>>
    /\ sel = << <<0, 0>> >>
    /\ out = <<>>

InitSession ==
    /\ DefaultMargins
    /\ InitSessionState

\* ------------------------------------------------------------------- Next
\* The steps of the update thread; the emulator dirties rows of a set and
\* reports colour maps of a set.
UpdateThread(rows, color_maps, cursors) ==
    \/ LoopHead
    \/ PollNothing
    \/ \E d \in DirtyMaps(rows), cursor_pos \in cursors : Poll(d, cursor_pos)
    \/ ScrollTest
    \/ UpdateViewBegin
    \/ \E cm \in color_maps : UpdateLine(cm)
    \/ UpdateLinesEnd
    \/ UpdateCursor
    \/ \E now \in Clock : UpdateViewEnd(now)
    \/ Resize
    \/ Liveness
    \/ StopBegin
    \/ StopKill
    \/ StopEnd
    \/ \E b \in BOOLEAN : Pace(b)
    \/ Exit

Finalizer ==
    \/ DelStopBegin
    \/ DelStopKill
    \/ DelStopEnd
    \/ DelJoin
    \/ DelFinish

\* The life of a session: the update thread, the child exiting, the view
\* closing, Sublime dropping the listener, and the key "a" pressed.  The
\* emulator has one row and no colours; the view's layout does not change.
Init ==
    /\ kp_request = NoRequest
    /\ impl = "TerminalView2.py"
    /\ show_colors = FALSE
    /\ metrics = Metrics(20, 10, 10, 5)
    /\ InitSession

Next ==
    \/ UpdateThread({0}, {<<>>}, {<<0, 0>>})
    \/ Finalizer
    \/ OwnerDrop
    \/ OnActivated
    \/ OnDeactivated
    \/ KeypressCommand(TRUE, <<97>>, EmptyDict)
    \/ KpIsRunning
    \/ KpPoll
    \/ KpWrite
    \/ ChildExit
    \/ ViewInvalidate

Spec == Init /\ [][Next]_vars

\* The same with the threads scheduled fairly: the update thread is a
\* running threading.Thread and __del__ is straight-line code on the thread
\* that dropped the last reference, so a step of either that stays possible
\* is taken.  Nothing is assumed about the user, the child or Sublime.
SpecFair ==
    /\ Spec
    /\ WF_vars(UpdateThread({0}, {<<>>}, {<<0, 0>>}))
    /\ WF_vars(Finalizer)

\* The line bookkeeping: the update thread alone, the emulator dirtying any
\* rows, colours off.  The child stays alive, the view stays open and no
\* key is pressed.
InitDisplay ==
    /\ kp_request = NoRequest
    /\ impl = "TerminalView2.py"
    /\ show_colors = FALSE
    /\ metrics = Metrics(20, 10, 10, 5)
    /\ InitSession

NextDisplay == UpdateThread(Rows, ColorMaps, {<<0, 0>>})

SpecDisplay == InitDisplay /\ [][NextDisplay]_vars

\* The colour bookkeeping: the same with colours on, the emulator dirtying
\* the rows 0 and 1 with any colour maps.
ColorRows == {0, 1}

InitColors ==
    /\ kp_request = NoRequest
    /\ impl = "TerminalView2.py"
    /\ show_colors = TRUE
    /\ metrics = Metrics(20, 10, 10, 5)
    /\ InitSession

NextColors == UpdateThread(ColorRows, ColorMaps, {<<0, 0>>})

SpecColors == InitColors /\ [][NextColors]_vars

\* The cursor: colours off, the emulator dirtying the rows 0 and 1 and
\* leaving its cursor anywhere on them.
Cursors == ColorRows \X Cols

InitCursor ==
    /\ kp_request = NoRequest
    /\ impl = "TerminalView2.py"
    /\ show_colors = FALSE
    /\ metrics = Metrics(20, 10, 10, 5)
    /\ InitSession

NextCursor == UpdateThread(ColorRows, {<<>>}, Cursors)

SpecCursor == InitCursor /\ [][NextCursor]_vars

\* The same for the TerminalView2 class of TerminalView.py.
InitTerminalView ==
    /\ kp_request = NoRequest
    /\ impl = "TerminalView.py"
    /\ show_colors \in BOOLEAN
    /\ metrics = Metrics(20, 10, 10, 5)
    /\ InitSession

SpecTerminalView == InitTerminalView /\ [][NextColors]_vars

\* Resizing: the update thread, the view's layout changing, the child
\* exiting and the view closing.
InitResize ==
    /\ kp_request = NoRequest
    /\ impl = "TerminalView2.py"
    /\ show_colors = FALSE
    /\ metrics \in ViewMetrics
    /\ InitSession

NextResize ==
    \/ UpdateThread({0}, {<<>>}, {<<0, 0>>})
    \/ \E m \in ViewMetrics : ViewportChange(m)
    \/ ChildExit
    \/ ViewInvalidate

SpecResize == InitResize /\ [][NextResize]_vars

\* The size of the view: sessions started with the margins of a settings
\* file, on a view whose layout changes.
InitViewSize ==
    /\ kp_request = NoRequest
    /\ impl = "TerminalView2.py"
    /\ show_colors = FALSE
    /\ metrics \in SizeMetrics
    /\ _right_margin \in RightMargins
    /\ _bottom_margin \in BottomMargins
    /\ InitSessionState

NextViewSize ==
    \/ UpdateThread({0}, {<<>>}, {<<0, 0>>})
    \/ \E m \in SizeMetrics : ViewportChange(m)

SpecViewSize == InitViewSize /\ [][NextViewSize]_vars

\* The teardown by the owner, for the TerminalView2 class of either module:
\* the update thread, the child exiting, the view closing and Sublime
\* dropping the listener.
InitTeardown ==
    /\ kp_request = NoRequest
    /\ impl \in Impls
    /\ show_colors = FALSE
    /\ metrics = Metrics(20, 10, 10, 5)
    /\ InitSession

NextTeardown ==
    \/ UpdateThread({0}, {<<>>}, {<<0, 0>>})
    \/ ProxyError
    \/ Finalizer
    \/ OwnerDrop
    \/ ChildExit
    \/ ViewInvalidate

SpecTeardown == InitTeardown /\ [][NextTeardown]_vars

\* The focus of several sessions: Sublime calls on_activated and
\* on_deactivated on their listeners, sessions are released, and keypress
\* commands look up the active instance.
\* get_active_instance over several sessions: "if cls._active_instance:
\* return cls._active_instance()"; a weak reference to a dead session
\* returns None.
ActiveInstance(slot, alive) == IF slot # None /\ slot \in alive THEN slot ELSE None

\* on_activated: "self.__class__._active_instance = weakref.ref(self)"
on_activated(slot, self) == self

\* on_deactivated: "self.__class__._active_instance = None"
on_deactivated(slot, self) == None

FocusGained(s) ==
    /\ s \in instances /\ s \notin view_focus
    /\ view_focus' = view_focus \cup {s}
    /\ _active_instance' = on_activated(_active_instance, s)
    /\ out' = <<>>
    /\ UNCHANGED <<impl, show_colors, has_shell, _right_margin, _bottom_margin, _pty, _pts,
                   instances, delivered, scroll_vars, pc, worker_ref, owner_ref, del_vars,
                   process_vars, observed_exit, view_valid, size_vars, _last_update,
                   active, kp_vars, display_vars>>

FocusLost(s) ==
    /\ s \in instances /\ s \in view_focus
    /\ view_focus' = view_focus \ {s}
    /\ _active_instance' = on_deactivated(_active_instance, s)
    /\ out' = <<>>
    /\ UNCHANGED <<impl, show_colors, has_shell, _right_margin, _bottom_margin, _pty, _pts,
                   instances, delivered, scroll_vars, pc, worker_ref, owner_ref, del_vars,
                   process_vars, observed_exit, view_valid, size_vars, _last_update,
                   active, kp_vars, display_vars>>

\* A session is released: its weak references are cleared.
SessionReleased(s) ==
    /\ s \in instances
    /\ instances' = instances \ {s}
    /\ view_focus' = view_focus \ {s}
    /\ out' = <<>>
    /\ UNCHANGED <<impl, show_colors, has_shell, _right_margin, _bottom_margin, _pty, _pts,
                   _active_instance, delivered, scroll_vars, pc, worker_ref, owner_ref,
                   del_vars, process_vars, observed_exit, view_valid, size_vars,
                   _last_update, active, kp_vars, display_vars>>

\* TerminalViewKeypressCommand.run: "instance = get_active_instance()" and
\* the call of its callback.
KeypressDelivered ==
    /\ delivered' = ActiveInstance(_active_instance, instances)
    /\ out' = IF delivered' # None
              THEN << <<"terminal_view_keypress_callback", delivered'>> >>
              ELSE << <<"no_instance">> >>
    /\ UNCHANGED <<impl, show_colors, has_shell, _right_margin, _bottom_margin, _pty, _pts,
                   _active_instance, instances, view_focus, scroll_vars, pc, worker_ref,
                   owner_ref, del_vars, process_vars, observed_exit, view_valid,
                   size_vars, _last_update, active, kp_vars, display_vars>>

InitFocusSpec ==
    /\ kp_request = NoRequest
    /\ impl = "TerminalView2.py"
    /\ show_colors = FALSE
    /\ metrics = Metrics(20, 10, 10, 5)
    /\ InitSession

NextFocus ==
    \/ \E s \in Sessions : FocusGained(s)
    \/ \E s \in Sessions : FocusLost(s)
    \/ \E s \in Sessions : SessionReleased(s)
    \/ KeypressDelivered

SpecFocus == InitFocusSpec /\ [][NextFocus]_vars

\* The start of a session whose shell may fail to start, and its life.
InitSpawn ==
    /\ kp_request = NoRequest
    /\ impl = "TerminalView2.py"
    /\ show_colors = FALSE
    /\ metrics = Metrics(20, 10, 10, 5)
    /\ DefaultMargins
    /\ InitFocus
    /\ has_shell = FALSE
    /\ _pty = FALSE /\ _pts = FALSE
    /\ _scroll = None
    /\ index = "" /\ direction = ""
    /\ scroll_pending = {}
    /\ pc = "construct"
    /\ worker_ref = FALSE
    /\ owner_ref = TRUE
    /\ weak_alive = TRUE
    /\ del_pc = "none"
    /\ del_thread = "none"
    /\ stop_result = FALSE
    /\ _shell_is_running = FALSE
    /\ _process = FALSE
    /\ child_alive = FALSE
    /\ kills = 0
    /\ observed_exit = FALSE
    /\ view_valid = TRUE
    /\ _rows_cols = <<0, 0>>
    /\ reported = {}
    /\ notified = EmptyDict
    /\ _last_update = 0
    /\ active = FALSE
    /\ kp_pc = "idle"
    /\ kp_outcome = "none"
    /\ kp_keycode = <<>>
    /\ kp_stopped = FALSE
    /\ _buffer_contents = EmptyDict
    /\ _color_regions = EmptyDict
    /\ view_regions = EmptyDict
    /\ read_only = TRUE
    /\ dirty = EmptyDict
    /\ todo = <<>>
    /\ had_dirty_lines = FALSE
    /\ applied = <<>>
    /\ row_color_map = <<>>
    /\ registered = EmptyDict
    /\ cursor = <<0, 0>>
    /\ last_cursor_pos = None
    /\ view_text = <<>>
    /\ sel = << <<0, 0>> >>
    /\ out = <<>>

NextSpawn ==
    \/ \E spawn_ok \in BOOLEAN : Construct(spawn_ok)
    \/ UpdateThread({0}, {<<>>}, {<<0, 0>>})
    \/ Finalizer
    \/ OwnerDrop
    \/ OnActivated
    \/ OnDeactivated
    \/ KeypressCommand(TRUE, <<97>>, EmptyDict)
    \/ KpIsRunning
    \/ KpPoll
    \/ KpWrite
    \/ ChildExit
    \/ ViewInvalidate

SpecSpawn == InitSpawn /\ [][NextSpawn]_vars

\* Scrolling: the update thread and an input handler that puts requests
\* into the slot at any moment.
Scrolling ==
    \/ ScrollIndex
    \/ ScrollDirection
    \/ ScrollNavigate
    \/ ScrollClear

NextScroll ==
    \/ UpdateThread({0}, {<<>>}, {<<0, 0>>})
    \/ Scrolling
    \/ \E unit \in ScrollUnits, dir \in ScrollDirections : ScrollRequest(unit, dir)

SpecScroll == Init /\ [][NextScroll]_vars

\* Key presses: the command run from start to end for every request, on a
\* session that has or has not the focus and whose child may exit.
InitKeys ==
    /\ impl = "TerminalView2.py"
    /\ show_colors = FALSE
    /\ metrics = Metrics(20, 10, 10, 5)
    /\ kp_request \in KeypressRequests
    /\ InitSession

NextKeys ==
    \/ KeypressCommand(kp_request.key_is_str, kp_request.key, kp_request.mods)
    \/ KpIsRunning
    \/ KpPoll
    \/ KpWrite
    \/ OnActivated
    \/ OnDeactivated
    \/ ChildExit

SpecKeys == InitKeys /\ [][NextKeys]_vars

\* ================================================================ properties
\* The sum of the tracked lengths of the rows in S, row by row.
TrackedLen(bc, r) == IF r \in DOMAIN bc THEN Len(bc[r]) ELSE 0

RECURSIVE SumLen(_, _)
SumLen(bc, S) ==
    IF S = {} THEN 0
    ELSE LET r == CHOOSE x \in S : TRUE
         IN  TrackedLen(bc, r) + SumLen(bc, S \ {r})

\* The span a row is expected to have: it starts where the tracked rows
\* before it end.
Span(bc, k) ==
    LET start == SumLen(bc, {r \in DOMAIN bc : r < k})
    IN  <<start, start + TrackedLen(bc, k)>>

\* The content requests (replace, erase) among the calls of a step.
IsContentCall(c) == c[1] \in {"terminal_view_replace", "terminal_view_erase"}
ContentCalls(calls) == SelectSeq(calls, IsContentCall)

\* A step of _update_lines' loop body for the row Head(todo).
LineUpdated ==
    /\ pc = "update_lines" /\ todo # <<>>
    /\ todo' = Tail(todo) \/ pc' = "crashed"

Range(f) == {f[x] : x \in DOMAIN f}

\* ---------------------------------------------------------------- C1
\* C1: after any sequence of dirty-row updates the span computed for row k
\* starts at the sum of the tracked lengths of the rows below k and ends at
\* that start plus row k's own tracked length, and the content request of
\* every row update carries the span computed from the tracked content as it
\* was before the update (so rows 0, 1, 2 applied to an empty session get the
\* starts 0, L0, L0 + L1).
C1_SpanIsSumOfTrackedLengths ==
    /\ [](\A k \in Rows :
            _get_line_start_and_end_points(_buffer_contents, k)
                = Span(_buffer_contents, k))
    /\ [][LineUpdated =>
            LET k == Head(todo)
                c == ContentCalls(out')
            IN  /\ Len(c) = 1
                /\ <<c[1][2], c[1][3]>> = Span(_buffer_contents, k)
                /\ <<c[1][2], c[1][3]>>
                       = _get_line_start_and_end_points(_buffer_contents, k)]_vars

\* Rows 0 and 1 are tracked with different lengths and the row past them has
\* just been written at the offset L0 + L1.
C1_Witness ==
    /\ pc = "update_lines" /\ todo = <<>>
    /\ DOMAIN _buffer_contents = {0, 1, 2}
    /\ Len(_buffer_contents[0]) # Len(_buffer_contents[1])
    /\ Len(ContentCalls(out)) = 1
    /\ ContentCalls(out)[1][1] = "terminal_view_replace"
    /\ ContentCalls(out)[1][2]
           = Len(_buffer_contents[0]) + Len(_buffer_contents[1])

\* ---------------------------------------------------------------- C2
\* C2: applying a dirty row whose content is not None issues exactly one
\* replace request, covering the row's span as it was before the update and
\* carrying the content followed by a newline, and records that text as the
\* row's tracked content.
C2_ReplaceRequestAndRecord ==
    [][(LineUpdated /\ dirty[Head(todo)] # None) =>
            LET k == Head(todo)
                span == Span(_buffer_contents, k)
                text == dirty[k] \o <<"\n">>
            IN  /\ ContentCalls(out')
                       = << <<"terminal_view_replace", span[1], span[2], text>> >>
                /\ k \in DOMAIN _buffer_contents'
                /\ _buffer_contents'[k] = text]_vars

\* ---------------------------------------------------------------- C3
\* C3: applying a dirty row whose content is None issues one erase request
\* for the row's current span and no replace request, and the row is no
\* longer tracked; the span start of every higher row is from then on lower
\* by the cleared row's former length, and that is the start the next update
\* of such a row uses; clearing a row that is not tracked leaves the tracked
\* content as it was.
C3_ClearRow ==
    /\ [][(LineUpdated /\ dirty[Head(todo)] = None) =>
            LET k == Head(todo)
                span == Span(_buffer_contents, k)
            IN  /\ ContentCalls(out')
                       = << <<"terminal_view_erase", span[1], span[2]>> >>
                /\ k \notin DOMAIN _buffer_contents'
                /\ \A j \in Rows : j > k =>
                       _get_line_start_and_end_points(_buffer_contents', j)[1]
                           = _get_line_start_and_end_points(_buffer_contents, j)[1]
                               - TrackedLen(_buffer_contents, k)
                /\ (k \notin DOMAIN _buffer_contents) =>
                       _buffer_contents' = _buffer_contents]_vars
    /\ [][LineUpdated =>
            ContentCalls(out')[1][2]
                = SumLen(_buffer_contents,
                         {r \in DOMAIN _buffer_contents : r < Head(todo)})]_vars

\* A tracked row has just been erased while a higher row is tracked, whose
\* span has moved down.
C3_Witness ==
    /\ pc = "update_lines"
    /\ Len(out) > 0
    /\ out[Len(out)][1] = "terminal_view_erase"
    /\ out[Len(out)][3] > out[Len(out)][2]
    /\ \E k \in Rows \ DOMAIN _buffer_contents :
           /\ k \in DOMAIN dirty /\ dirty[k] = None
           /\ \A i \in 1..Len(todo) : todo[i] > k
           /\ \E j \in DOMAIN _buffer_contents : j > k

\* ---------------------------------------------------------------- C4
\* The keys registered on the view that belong to a row: "<row>,<idx>".
KeysOfRow(vr, r) ==
    LET prefix == Digits(r) \o <<",">>
    IN  {key \in DOMAIN vr :
            /\ Len(key) > Len(prefix)
            /\ SubSeq(key, 1, Len(prefix)) = prefix}

TrackedKeys(cr, r) == IF r \in DOMAIN cr THEN Range(cr[r]) ELSE {}

\* The position of the first call of a step that satisfies a test (0: none).
FirstContentCall(calls) ==
    IF \E i \in 1..Len(calls) : IsContentCall(calls[i])
    THEN Min({i \in 1..Len(calls) : IsContentCall(calls[i])})
    ELSE 0

\* C4: the region identifiers registered on the view for a row are exactly
\* the row's tracked region list, for every row and at every point between
\* two steps of the update; and when a dirty row is rewritten, every region
\* registered for it before has been erased from the view before the content
\* request is issued.
C4_RegionsAreTracked ==
    /\ [](\A r \in Rows :
            KeysOfRow(view_regions, r) = TrackedKeys(_color_regions, r))
    /\ [][LineUpdated =>
            LET k == Head(todo)
                at == FirstContentCall(out')
            IN  \A key \in KeysOfRow(view_regions, k) :
                    \E i \in 1..Len(out') :
                        /\ out'[i] = <<"erase_regions", key>>
                        /\ at = 0 \/ i < at]_vars

\* ---------------------------------------------------------------- C5
\* The state of the update loop as the session's flag and the position of
\* the two callers of _stop show it.
StopPositions == {"stop_begin", "stop_kill", "stop_end"}
LoopState ==
    IF ~_shell_is_running THEN "Stopped"
    ELSE IF pc \in StopPositions \/ del_pc \in StopPositions THEN "Stopping"
    ELSE "Running"

LoopStepAllowed ==
    /\ LoopState = "Running" => LoopState' \in {"Running", "Stopping"}
    /\ LoopState = "Stopping" => LoopState' \in {"Stopping", "Stopped"}
    /\ LoopState = "Stopped" => LoopState' = "Stopped"

\* C5: when the loop, while Running, finds that the child has exited on its
\* own, it goes to Stopping at once and then only to Stopped; once the loop
\* has ended the flag and is_running() are false; and from the exit on,
\* through the owner's teardown, no termination signal is sent at all (in
\* every run, at most one is).
C5_ChildExitStopsLoopWithoutSignal ==
    /\ [][(~observed_exit /\ observed_exit') =>
              LoopState = "Running" /\ LoopState' = "Stopping"]_vars
    /\ [][LoopStepAllowed]_vars
    /\ []((observed_exit /\ pc \in {"exit", "done"}) =>
              /\ LoopState = "Stopped"
              /\ ~is_running(_process, child_alive))
    /\ [](observed_exit => kills = 0)
    /\ [](kills <= 1)

\* The loop saw the child's exit and ended, the owner has let go of the
\* session, and its teardown has run to the end.
C5_Witness ==
    /\ observed_exit
    /\ pc = "done"
    /\ del_pc = "done"
    /\ ~owner_ref
    /\ kills = 0

\* ---------------------------------------------------------------- C6
\* LinuxPty.stop as one call on the state (process handle, child, signals).
LinuxPty_stop(s) ==
    LET running == is_running(s.process, s.alive)
    IN  [process |-> FALSE,
         alive   |-> IF stop_kills(running) THEN FALSE ELSE s.alive,
         kills   |-> IF stop_kills(running) THEN s.kills + 1 ELSE s.kills]

\* C6: the flag and the process handle, once cleared, stay cleared, and
\* is_running(), once false, stays false; a termination signal is only sent
\* by a session whose flag and handle are still set; a call of _stop on a
\* session that is already stopped changes nothing; when __del__'s _stop has
\* returned the session is stopped; and a second LinuxPty.stop changes
\* nothing the first one left.
C6_StopOnceAndIdempotent ==
    /\ [][/\ ~_shell_is_running => ~_shell_is_running'
          /\ ~_process => ~_process'
          /\ ~is_running(_process, child_alive) => ~is_running(_process', child_alive')
          /\ kills' # kills => (_shell_is_running /\ _process /\ kills' = kills + 1)
          /\ (del_pc = "stop_begin" /\ del_pc' # del_pc /\ ~_shell_is_running) =>
                 /\ UNCHANGED <<_shell_is_running, _process, child_alive, kills>>
                 /\ out' = <<>>]_vars
    /\ [](del_pc \in {"join", "finish", "done"} =>
              /\ ~_shell_is_running
              /\ ~is_running(_process, child_alive))
    /\ [](LET once == LinuxPty_stop([process |-> _process, alive |-> child_alive,
                                     kills |-> kills])
          IN  /\ ~is_running(once.process, once.alive)
              /\ LinuxPty_stop(once) = once)

\* The update thread has stopped the session with a signal, and __del__ is
\* about to call _stop again.
C6_Witness ==
    /\ del_pc = "stop_begin"
    /\ ~_shell_is_running
    /\ ~_process
    /\ kills = 1

\* ---------------------------------------------------------------- C7
\* C7: update_screen_size issues no window-size notification to the pty
\* when the process is not running (it was stopped, or the child has
\* exited).
C7_NoNotificationWhenNotRunning ==
    \A i \in 1..Len(out) :
        out[i][1] = "ioctl" => is_running(_process, child_alive)

\* ---------------------------------------------------------------- C8
\* C8: a keypress sent when is_running() is false writes nothing to the pty
\* master and raises no error; a write that happens is one write of the
\* encoded key code.
C8_KeypressOnStoppedSession ==
    /\ kp_stopped => \A i \in 1..Len(out) : out[i][1] \notin {"os.write", "raise"}
    /\ (\E i \in 1..Len(out) : out[i][1] = "os.write") =>
           out = << <<"os.write", encode_utf8(kp_keycode)>> >>

\* ---------------------------------------------------------------- C9
MetaWithOther(req) ==
    /\ Given(req.mods, "meta")
    /\ \E m \in {"ctrl", "alt", "shift"} : Given(req.mods, m)

InKeyTables(key) ==
    key \in DOMAIN _LINUX_KEY_MAP \cup DOMAIN _LINUX_CTRL_KEY_MAP
                \cup DOMAIN _LINUX_ALT_KEY_MAP

MetaRejection == <<"error_message", "Terminal View: Meta key is not supported yet">>

\* C9: a keypress whose key is a key name and that has meta together with
\* another modifier never reaches send_keypress and nothing is written for
\* it: the command ends with the error message about the meta key.  That
\* message is given for no keypress without meta, and a keypress without meta
\* whose key is in none of the tables gets no error message at all.
C9_MetaRejected ==
    /\ MetaWithOther(kp_request) =>
           /\ kp_pc = "idle"
           /\ kp_outcome \in {"none", "error_message"}
           /\ \A i \in 1..Len(out) : out[i][1] # "os.write"
           /\ \A i \in 1..Len(out) :
                  (out[i][1] = "error_message" /\ kp_request.key_is_str) =>
                      out[i] = MetaRejection
    /\ \A i \in 1..Len(out) :
           (out[i][1] = "error_message" /\ out[i] = MetaRejection) =>
               Given(kp_request.mods, "meta")
    /\ (/\ kp_request.key_is_str
        /\ ~Given(kp_request.mods, "meta")
        /\ ~InKeyTables(kp_request.key)) =>
           /\ kp_outcome # "error_message"
           /\ \A i \in 1..Len(out) : out[i][1] # "error_message"

\* ctrl + meta on a session that has the focus: the command has just shown
\* the message about the meta key.
C9_Witness ==
    /\ kp_request.key_is_str
    /\ Given(kp_request.mods, "ctrl") /\ Given(kp_request.mods, "meta")
    /\ active /\ weak_alive
    /\ kp_outcome = "error_message"
    /\ out = <<MetaRejection>>

\* ---------------------------------------------------------------- C10
\* C10 as stated: each size that was reported has been notified exactly once.
C10_OncePerDistinctSize ==
    \A size \in reported :
        size \in DOMAIN notified /\ notified[size] = 1

\* C10, amended: a report is notified, once and with the reported size, to
\* the pty and then to the emulator exactly when it differs from the size
\* notified last (<<0, 0>> before the first notification); a report equal to
\* that size is not notified.
C10_NotifiedWhenDifferentFromLast ==
    /\ [][(pc = "resize" /\ pc' # pc) =>
            LET size == view_size(metrics)
            IN  IF size # _rows_cols
                THEN /\ out' = << <<"ioctl", size[1], size[2], 0, 0>>,
                                  <<"resize", size[1], size[2]>> >>
                     /\ _rows_cols' = size
                ELSE /\ out' = <<>>
                     /\ _rows_cols' = _rows_cols]_vars
    /\ [][_rows_cols' # _rows_cols => (pc = "resize" /\ pc' # pc)]_vars
    /\ [](notified = EmptyDict => _rows_cols = <<0, 0>>)

\* A size that was notified, replaced by another one and reported again has
\* been notified a second time.
C10_Witness ==
    \E size \in DOMAIN notified : notified[size] >= 2

\* ---------------------------------------------------------------- C11
\* The navigation method that belongs to a scroll request.
Corresponding(request) ==
    CASE request = <<"line", "up">>   -> "prev_line"
      [] request = <<"line", "down">> -> "next_line"
      [] request = <<"page", "up">>   -> "prev_page"
      [] request = <<"page", "down">> -> "next_page"

NavigationMethods == {"prev_line", "next_line", "prev_page", "next_page"}

\* C11: a tick that finds a scroll request pending invokes exactly one
\* navigation method, the one that belongs to a request that was pending in
\* that tick, and leaves the slot empty when _update_scrolling returns; no
\* navigation method is invoked anywhere else, so a tick that finds no request
\* invokes none.
C11_OneCorrespondingNavigation ==
    /\ [][(pc = "scroll_navigate" /\ pc' # pc) =>
              \E request \in scroll_pending :
                  out' = << <<Corresponding(request)>> >>]_vars
    /\ [][(\E i \in 1..Len(out') : out'[i][1] \in NavigationMethods) =>
              (pc = "scroll_navigate" /\ pc' # pc)]_vars
    /\ [][(pc = "update_view" /\ pc' = "dirty_lines") => _scroll = None]_vars
    /\ [][(pc = "scroll_clear" /\ pc' # pc) => _scroll' = None]_vars

\* ---------------------------------------------------------------- C12
\* The calls of a step that are made only by a tick of the update loop or by
\* a stop.
TickCalls == {"feed", "set_viewport_position", "set_read_only", "clear_dirty",
              "ioctl", "resize", "kill"} \cup NavigationMethods

SpawnReport == <<"error_message", "OSError">>

\* C12: the step of the construction in which the spawn fails shows the
\* error once, and no later step shows it again; from then on the flag is
\* false, the update thread is at the head of its loop or past the loop, no
\* step makes a call of a tick (poll, display update, size notification) and
\* no kill is sent, through the owner's teardown.
C12_SpawnFailureNeverRuns ==
    /\ [][(pc = "construct" /\ pc' # pc /\ ~has_shell') =>
              /\ out' = <<SpawnReport>>
              /\ ~_shell_is_running']_vars
    /\ [][pc # "construct" =>
              \A i \in 1..Len(out') : out'[i] # SpawnReport]_vars
    /\ []((pc # "construct" /\ ~has_shell) =>
              /\ ~_shell_is_running
              /\ pc \in {"loop_head", "exit", "done"}
              /\ kills = 0
              /\ \A i \in 1..Len(out) : out[i][1] \notin TickCalls)

\* The spawn failed, the update thread has left its loop and the owner's
\* teardown has run to its end.
C12_Witness ==
    /\ ~has_shell
    /\ pc = "done"
    /\ del_pc = "done"
    /\ kills = 0
    /\ ~_shell_is_running

\* ---------------------------------------------------------------- C13
\* The update thread has left its loop (after its own teardown, or because
\* the session was gone) and the control path's teardown, __del__'s _stop,
\* has returned.
TeardownsEnded == pc \in {"exit", "done"} /\ del_pc \in {"join", "finish", "done"}

\* C13: whatever the order of the update thread's teardown and the control
\* path's, the child gets at most one kill, no stop works on a process
\* handle that was already cleared (the thread does not end in an exception
\* and __del__'s _stop runs to its end), every kill is sent while the handle
\* is still set, and when both have run the session is stopped: flag false,
\* handle cleared, child gone.
C13_TeardownFromEitherSide ==
    /\ [](kills <= 1 /\ pc # "crashed")
    /\ [][(\E i \in 1..Len(out') : out'[i] = <<"kill">>) =>
              (_process /\ ~_process' /\ kills' = 1)]_vars
    /\ [][((pc = "stop_kill" /\ pc' # pc) \/ (del_pc = "stop_kill" /\ del_pc' # del_pc)) =>
              \A i \in 1..Len(out') : out'[i][1] # "raise"]_vars
    /\ [](TeardownsEnded =>
              /\ ~_shell_is_running
              /\ ~_process
              /\ ~child_alive)

\* Both teardowns have run, the update thread's first (it found the view
\* closed and killed the child), the owner's after it.
C13_Witness ==
    /\ pc = "done"
    /\ del_pc = "done"
    /\ ~view_valid
    /\ ~observed_exit
    /\ kills = 1
    /\ ~_shell_is_running

\* ---------------------------------------------------------------- C14
\* C14: however send_keypress interleaves with the worker's poll and with a
\* stop from either side, nothing is written to the pty master once the pty
\* has been marked stopped (its process handle cleared), and the running
\* check of send_keypress never ends in an error because the handle was
\* cleared between the check and its use.
C14_NoWriteAfterStopNoTornCheck ==
    /\ [](\A i \in 1..Len(out) : out[i][1] = "os.write" => _process)
    /\ [][(kp_pc = "poll" /\ kp_pc' # "poll") =>
              \A i \in 1..Len(out') : out'[i][1] # "raise"]_vars

\* ---------------------------------------------------------------- C15
\* The last keypress was accepted and handed to send_keypress.
KeypressSent == kp_outcome = "send" /\ has_shell
Ctrl == Given(kp_request.mods, "ctrl")
Alt == Given(kp_request.mods, "alt")
Shift == Given(kp_request.mods, "shift")
Meta == Given(kp_request.mods, "meta")

IsLetter(key) == Len(key) = 1 /\ LowerChar(key[1]) >= 97 /\ LowerChar(key[1]) <= 122

\* The plain-key encoding: the table sequence of a key of the plain-key
\* table, any other key as it is.
PlainKeyEncoding(key) ==
    IF key \in DOMAIN _LINUX_KEY_MAP THEN _LINUX_KEY_MAP[key] ELSE key

\* The key code written is the one computed from the request alone.
WrittenIsKeyCode ==
    \A i \in 1..Len(out) :
        out[i][1] = "os.write" => out[i] = <<"os.write", encode_utf8(kp_keycode)>>

\* C15 as stated: with ctrl, a key of the control-key table is encoded as its
\* table entry, a single letter a..z in either case that is not in the table
\* as chr(ord(lowercase letter) - 96), and any other key as the plain-key
\* encoding of the key.
C15_CtrlEncoding ==
    (KeypressSent /\ Ctrl) =>
        /\ kp_keycode =
               IF kp_request.key \in DOMAIN _LINUX_CTRL_KEY_MAP
               THEN _LINUX_CTRL_KEY_MAP[kp_request.key]
               ELSE IF IsLetter(kp_request.key)
               THEN <<LowerChar(kp_request.key[1]) - 96>>
               ELSE PlainKeyEncoding(kp_request.key)
        /\ WrittenIsKeyCode

\* C15 amended: with ctrl the key is lowercased first; the lowercased key is
\* looked up in the control-key table, a single letter a..z not in the table
\* is encoded as chr(ord(lowercase letter) - 96), and any other key gets the
\* plain-key encoding of the lowercased key.  What is written depends on
\* (key, ctrl, alt, shift, meta) only.
C15_CtrlEncodingOfLoweredKey ==
    (KeypressSent /\ Ctrl) =>
        /\ kp_keycode =
               IF lower(kp_request.key) \in DOMAIN _LINUX_CTRL_KEY_MAP
               THEN _LINUX_CTRL_KEY_MAP[lower(kp_request.key)]
               ELSE IF IsLetter(kp_request.key)
               THEN <<LowerChar(kp_request.key[1]) - 96>>
               ELSE PlainKeyEncoding(lower(kp_request.key))
        /\ WrittenIsKeyCode

\* ctrl+"A" has been written as the byte 1.
C15_Witness ==
    /\ KeypressSent /\ Ctrl
    /\ kp_request.key = <<65>>
    /\ out = << <<"os.write", <<1>> >> >>

\* ---------------------------------------------------------------- C16
\* Two key names that differ in the case of their letters only.
SameKeyButCase(k1, k2) == lower(k1) = lower(k2)

\* What is written for a key with the modifiers of the last request.
BytesSent(key) == encode_utf8(send_keypress(key, Ctrl, Alt, Shift, Meta))

\* C16 as stated: for every modifier combination, the bytes sent for a key
\* are the bytes sent for any other casing of it.
C16_CaseInsensitiveLookup ==
    KeypressSent =>
        /\ WrittenIsKeyCode
        /\ \A k \in KeyNames :
               SameKeyButCase(k, kp_request.key) =>
                   encode_utf8(kp_keycode) = BytesSent(k)

\* C16 amended: with ctrl or alt the bytes sent for a key are the bytes sent
\* for any other casing of it.
C16_CaseInsensitiveWithCtrlOrAlt ==
    (KeypressSent /\ (Ctrl \/ Alt)) =>
        /\ WrittenIsKeyCode
        /\ \A k \in KeyNames :
               SameKeyButCase(k, kp_request.key) =>
                   encode_utf8(kp_keycode) = BytesSent(k)

\* alt+"Enter" has been written as ESC and a carriage return, the bytes of
\* alt+"enter".
C16_Witness ==
    /\ KeypressSent /\ Alt /\ ~Ctrl
    /\ kp_request.key = <<69, 110, 116, 101, 114>>
    /\ out = << <<"os.write", <<27, 13>> >> >>

\* ---------------------------------------------------------------- C17
\* C17: with neither ctrl nor alt, a key of the plain-key table is sent as
\* its table sequence and any other key is sent unchanged.
C17_PlainEncoding ==
    (KeypressSent /\ ~Ctrl /\ ~Alt) =>
        /\ kp_request.key \in DOMAIN _LINUX_KEY_MAP =>
               kp_keycode = _LINUX_KEY_MAP[kp_request.key]
        /\ kp_request.key \notin DOMAIN _LINUX_KEY_MAP =>
               kp_keycode = kp_request.key
        /\ \A i \in 1..Len(out) :
               out[i][1] = "os.write" =>
                   out[i][2] = encode_utf8(PlainKeyEncoding(kp_request.key))

\* "Enter", which is not a key of the table, has been written letter by
\* letter.
C17_Witness ==
    /\ KeypressSent /\ ~Ctrl /\ ~Alt
    /\ kp_request.key = <<69, 110, 116, 101, 114>>
    /\ out = << <<"os.write", <<69, 110, 116, 101, 114>> >> >>

\* ---------------------------------------------------------------- C18
\* C18: the bytes sent with ctrl and alt are the bytes sent with ctrl alone.
C18_CtrlBeforeAlt ==
    (KeypressSent /\ Ctrl /\ Alt) =>
        /\ kp_keycode = send_keypress(kp_request.key, TRUE, FALSE, Shift, Meta)
        /\ \A i \in 1..Len(out) :
               out[i][1] = "os.write" =>
                   out[i][2] = encode_utf8(send_keypress(kp_request.key, TRUE, FALSE,
                                                         Shift, Meta))

\* ctrl+alt+"up" has been written as the ctrl sequence of the up arrow.
C18_Witness ==
    /\ KeypressSent /\ Ctrl /\ Alt
    /\ kp_request.key = <<117, 112>>
    /\ out = << <<"os.write", <<27, 91, 49, 59, 53, 65>> >> >>

\* ---------------------------------------------------------------- C19
\* The sizes handed to the emulator's resize by the last step.
ResizeCalls == {i \in 1..Len(out) : out[i][1] = "resize"}
AtLeastOne(n) == IF n < 1 THEN 1 ELSE n
ExampleMetrics == Metrics(300, 200, 10, 5)

\* C19 as stated: rows and columns are at least 1 for every input, zero pixel
\* metrics included, and with nonzero metrics they are
\* floor(height / line height) - bottom margin and
\* floor(width / character width) - right margin, clamped to 1.
C19_ViewSizeClamped ==
    \A i \in ResizeCalls :
        /\ out[i][2] >= 1 /\ out[i][3] >= 1
        /\ (metrics.line_height # 0 /\ metrics.em_width # 0) =>
               /\ out[i][2] = AtLeastOne((metrics.h \div metrics.line_height) - _bottom_margin)
               /\ out[i][3] = AtLeastOne((metrics.w \div metrics.em_width) - _right_margin)

\* C19 amended: with a nonzero line height and a nonzero character width the
\* size is as stated, each dimension at least 1; with a line height or a
\* character width of zero it is (0, 0).  A viewport of 300 x 200 with lines of
\* 10, characters of 5, a right margin of 1 and a bottom margin of 0 has the
\* size (20, 59).
C19_ViewSizeClampedUnlessZeroMetrics ==
    /\ \A i \in ResizeCalls :
           IF metrics.line_height = 0 \/ metrics.em_width = 0
           THEN out[i][2] = 0 /\ out[i][3] = 0
           ELSE /\ out[i][2] = AtLeastOne((metrics.h \div metrics.line_height) - _bottom_margin)
                /\ out[i][3] = AtLeastOne((metrics.w \div metrics.em_width) - _right_margin)
                /\ out[i][2] >= 1 /\ out[i][3] >= 1
    /\ (ResizeCalls # {} /\ metrics = ExampleMetrics /\ _right_margin = 1
          /\ _bottom_margin = 0) =>
           \A i \in ResizeCalls : out[i] = <<"resize", 20, 59>>

\* The example's view has been measured: the emulator was resized to 20 rows
\* of 59 columns.
C19_Witness ==
    /\ metrics = ExampleMetrics /\ _right_margin = 1 /\ _bottom_margin = 0
    /\ \E i \in ResizeCalls : out[i] = <<"resize", 20, 59>>
    /\ _rows_cols = <<20, 59>>

\* ---------------------------------------------------------------- C20
\* A keypress the command accepts: its key is a string and meta is not set.
Accepted(req) == req.key_is_str /\ ~Given(req.mods, "meta")

\* The call of the callback for a request: the key and the four modifiers,
\* False where the request does not give one.
CallbackCall(req) ==
    <<"terminal_view_keypress_callback", req.key, Given(req.mods, "ctrl"),
      Given(req.mods, "alt"), Given(req.mods, "shift"), Given(req.mods, "meta")>>

CallbackCalls == {i \in 1..Len(out) : out[i][1] = "terminal_view_keypress_callback"}

\* A step of the command: the main thread is idle and neither the focus nor
\* the child changes.
CommandStep ==
    /\ kp_pc = "idle"
    /\ active' = active
    /\ child_alive' = child_alive

\* C20: the callback of the active session is called once for every accepted
\* keypress, with the key and the modifiers of the request, False for a
\* modifier that was not given; it is called for no other keypress.
C20_CallbackOncePerAcceptedKeypress ==
    /\ [](\A i \in CallbackCalls :
              /\ Accepted(kp_request)
              /\ out[i] = CallbackCall(kp_request)
              /\ CallbackCalls = {i})
    /\ [][(CommandStep /\ Accepted(kp_request) /\ get_active_instance) =>
              out' = <<CallbackCall(kp_request)>>]_vars

\* The request key "a" with alt only has reached the callback as
\* ("a", False, True, False, False).
C20_Witness ==
    /\ kp_request = [key_is_str |-> TRUE, key |-> <<97>>, mods |-> [alt |-> TRUE]]
    /\ out = << <<"terminal_view_keypress_callback", <<97>>, FALSE, TRUE, FALSE, FALSE>> >>

\* ---------------------------------------------------------------- C21
\* C21: once the session is stopped (_stop has run LinuxPty.stop and cleared
\* the flag) the child is not running any more and neither pty descriptor
\* opened at the start is still open.
C21_StopClosesPty ==
    (has_shell /\ ~_shell_is_running /\ ~_process) =>
        /\ ~child_alive
        /\ ~_pty
        /\ ~_pts

\* ---------------------------------------------------------------- C22
StrictlyAscending(seq) == \A i, j \in 1..Len(seq) : i < j => seq[i] < seq[j]

\* The calls of one row: the removals of its regions, then one rewrite or
\* erase, then the registrations of its new regions.
RowCallsInOrder(calls) ==
    /\ Len(ContentCalls(calls)) = 1
    /\ \A i \in 1..Len(calls) :
           /\ i < FirstContentCall(calls) => calls[i][1] = "erase_regions"
           /\ i > FirstContentCall(calls) => calls[i][1] = "add_regions"

\* C22: within one tick the rows applied so far and the rows still to be
\* applied are together the dirty rows in strictly ascending order, each
\* once; the step for a row applies the lowest row not yet applied, which
\* becomes tracked with its new content (or untracked when it is cleared);
\* its calls are the removals of the row's regions, then one rewrite or
\* erase, then the registrations of its new regions; and the batch ends only
\* when every dirty row has been applied.
C22_RowsAscendingOnce ==
    /\ [](pc = "update_lines" =>
              /\ StrictlyAscending(applied \o todo)
              /\ Range(applied \o todo) = DOMAIN dirty)
    /\ [][(LineUpdated /\ pc' # "crashed") =>
              LET k == Head(todo)
              IN  /\ applied' = Append(applied, k)
                  /\ \A r \in DOMAIN dirty : r < k => r \in Range(applied)
                  /\ RowCallsInOrder(out')
                  /\ IF dirty[k] = None
                     THEN k \notin DOMAIN _buffer_contents'
                     ELSE _buffer_contents'[k] = dirty[k] \o <<"\n">>]_vars
    /\ [][(pc = "update_lines" /\ pc' = "update_cursor") =>
              Range(applied) = DOMAIN dirty]_vars

\* Rows 0 and 1 have both been applied in one tick, row 1 last: its old
\* region was removed, its content rewritten and a new region registered.
C22_Witness ==
    /\ pc = "update_lines" /\ todo = <<>>
    /\ applied = <<0, 1>>
    /\ Len(out) = 3
    /\ out[1][1] = "erase_regions"
    /\ out[2][1] = "terminal_view_replace"
    /\ out[3][1] = "add_regions"

\* ---------------------------------------------------------------- C23
IsEraseRegions(c) == c[1] = "erase_regions"
ErasedKeys(calls) == KeysOf(SelectSeq(calls, IsEraseRegions))

\* C23: when a row is rewritten, the region keys registered for it are
\* removed from the view in the order in which they were registered.
C23_RemovedInRegistrationOrder ==
    [][LineUpdated =>
          ErasedKeys(out') = IF Head(todo) \in DOMAIN registered
                             THEN registered[Head(todo)]
                             ELSE <<>>]_vars

\* ---------------------------------------------------------------- C24
\* The add_regions calls of a step for a key.
AddCallsFor(calls, key) ==
    {i \in 1..Len(calls) : calls[i][1] = "add_regions" /\ calls[i][2] = key}

\* C24: the step for a dirty row registers, for every entry (column offset,
\* run) of the row's colour map, exactly one region, from the span start of
\* the row (in the tracked content as it is after the rows before it and the
\* row itself were rewritten) plus the column offset, of the run's length;
\* its key is the one derived from (row, column offset), keys of different
\* (row, column offset) differ, the view holds the region under that key,
\* and the row's tracked region list holds exactly these keys.
C24_OneRegionPerRun ==
    /\ [][(LineUpdated /\ pc' # "crashed") =>
              LET k == Head(todo)
                  start == SumLen(_buffer_contents',
                                  {r \in DOMAIN _buffer_contents' : r < k})
              IN  /\ \A n \in 1..Len(row_color_map') :
                         LET f == row_color_map'[n]
                             key == RegionKey(k, f.idx)
                         IN  /\ Cardinality(AddCallsFor(out', key)) = 1
                             /\ \A i \in AddCallsFor(out', key) :
                                    /\ out'[i][3] = start + f.idx
                                    /\ out'[i][4] = start + f.idx + f.field_length
                             /\ key \in DOMAIN view_regions'
                             /\ view_regions'[key]
                                    = <<start + f.idx, start + f.idx + f.field_length>>
                  /\ Len(AddedKeys(out')) = Len(row_color_map')
                  /\ TrackedKeys(_color_regions', k)
                         = {RegionKey(k, row_color_map'[n].idx) :
                                n \in 1..Len(row_color_map')}
                  /\ k \in DOMAIN _color_regions' =>
                         Len(_color_regions'[k]) = Len(row_color_map')]_vars
    /\ [](\A r1, r2 \in Rows, i1, i2 \in Cols :
              RegionKey(r1, i1) = RegionKey(r2, i2) => (r1 = r2 /\ i1 = i2))

\* Row 1, below a tracked row 0, has got the regions of its two runs.
C24_Witness ==
    /\ pc = "update_lines"
    /\ applied # <<>> /\ applied[Len(applied)] = 1
    /\ 0 \in DOMAIN _buffer_contents
    /\ Len(row_color_map) = 2
    /\ Len(AddedKeys(out)) = 2
    /\ TrackedKeys(_color_regions, 1) = {RegionKey(1, 0), RegionKey(1, 1)}

\* ---------------------------------------------------------------- C25
\* The sizes pushed to the process (the window-size ioctl on the pty) and to
\* the emulator (resize) by a step, in the order of the calls.
IsIoctl(c) == c[1] = "ioctl"
IsResize(c) == c[1] = "resize"
RECURSIVE SizesOf(_)
SizesOf(calls) ==
    IF calls = <<>> THEN <<>> ELSE << <<Head(calls)[2], Head(calls)[3]>> >> \o SizesOf(Tail(calls))
PushedToProcess(calls) == SizesOf(SelectSeq(calls, IsIoctl))
PushedToEmulator(calls) == SizesOf(SelectSeq(calls, IsResize))

\* The size check of a tick.
SizeCheck == pc = "resize" /\ pc' # pc

\* C25: the size check of a tick pushes the size computed in the tick to the
\* process and to the emulator, once each, when it differs from the size
\* notified last, which then becomes that size; otherwise it calls neither
\* and the size notified last stays; this is so in a tick with dirty rows
\* and in one without; the size notified last is (0, 0) at the start, and no
\* other step pushes a size.
C25_PushIffSizeDiffers ==
    /\ [][SizeCheck =>
              LET size == view_size(metrics)
                  pushed == IF size # _rows_cols THEN <<size>> ELSE <<>>
              IN  /\ PushedToProcess(out') = pushed
                  /\ PushedToEmulator(out') = pushed
                  /\ Len(out') = 2 * Len(pushed)
                  /\ _rows_cols' = (IF size # _rows_cols THEN size ELSE _rows_cols)
                  /\ had_dirty_lines' = had_dirty_lines]_vars
    /\ [][~SizeCheck =>
              /\ PushedToProcess(out') = <<>>
              /\ PushedToEmulator(out') = <<>>
              /\ _rows_cols' = _rows_cols]_vars
    /\ [](reported = {} => _rows_cols = <<0, 0>>)

\* A tick that had dirty rows has pushed the size (1, 2) after another size
\* was notified.
C25_Witness ==
    /\ pc = "liveness"
    /\ had_dirty_lines
    /\ out = << <<"ioctl", 1, 2, 0, 0>>, <<"resize", 1, 2>> >>
    /\ _rows_cols = <<1, 2>>
    /\ <<1, 1>> \in DOMAIN notified

\* C26: the liveness test comes before the size check, so a tick whose
\* liveness test finds the view invalid or the process not running leaves the
\* loop without having pushed a size to the process or to the emulator.
C26_LivenessBeforeSizeCheck ==
    [][(pc = "liveness" /\ pc' = "stop_begin") =>
           /\ PushedToProcess(out) = <<>>
           /\ PushedToEmulator(out) = <<>>]_vars

\* C27: _update_cursor moves the marker exactly when the emulator's cursor
\* differs from the position applied last or that position was invalidated by
\* the dirty rows of this tick; with no dirty rows and an unchanged cursor,
\* (0, 0) included, it makes no call on the view; after a move the position
\* applied last is the emulator's cursor.
CursorStep == pc = "update_cursor" /\ pc' # pc
MarkerMoved(calls) == \E i \in 1..Len(calls) : calls[i][1] = "sel_add"
C27_CursorMovedIffChanged ==
    /\ [][CursorStep =>
              /\ MarkerMoved(out') <=> (had_dirty_lines \/ last_cursor_pos # cursor)
              /\ ~MarkerMoved(out') => out' = <<>> /\ sel' = sel
              /\ last_cursor_pos' = cursor]_vars
    /\ [][~CursorStep => ~MarkerMoved(out') /\ sel' = sel]_vars
    /\ [](had_dirty_lines /\ pc \in {"update_lines", "update_cursor"} => last_cursor_pos = None)
C27_Witness ==
    /\ pc = "last_update" /\ ~had_dirty_lines
    /\ cursor = <<0, 0>> /\ last_cursor_pos = <<0, 0>>
    /\ out = <<>>
    /\ _buffer_contents # EmptyDict

\* C28: when the marker is moved to a cursor that lies on a tracked row, inside
\* that row's text, the selection becomes the single empty region at the start
\* of the row's tracked span plus the cursor's column, whichever lower rows
\* are tracked.
SpanStart(bc, row) == _get_line_start_and_end_points(bc, row)[1]
CursorOnTrackedText ==
    /\ cursor[1] \in DOMAIN _buffer_contents
    /\ cursor[2] < Len(_buffer_contents[cursor[1]])
C28_CursorOffsetFromSpans ==
    [][(CursorStep /\ MarkerMoved(out') /\ CursorOnTrackedText) =>
           LET p == SpanStart(_buffer_contents, cursor[1]) + cursor[2]
           IN  sel' = << <<p, p>> >>]_vars

\* C29: every replace or erase command is issued while the view is writable,
\* and the view is read-only in every state in which the update thread is
\* not inside _update_lines, also after a batch that ended in an exception.
EditIssued(calls) ==
    \E i \in 1..Len(calls) : calls[i][1] \in {"terminal_view_replace", "terminal_view_erase"}
C29_ReadOnlyOutsideBatch ==
    /\ [][EditIssued(out') => ~read_only /\ pc = "update_lines"]_vars
    /\ [](pc # "update_lines" => read_only)

\* C30: with the update thread scheduled fairly, once the child has exited or
\* the view is invalid the loop leaves Running, the process session is told
\* to stop and the session is stopped; once the loop has ended no tick
\* follows.
StopCause == ~child_alive \/ ~view_valid
LoopEnded == pc \in {"done", "crashed"}
Stopped == LoopEnded /\ ~_shell_is_running /\ ~_process
C30_EventuallyStopped ==
    /\ StopCause ~> Stopped
    /\ [][LoopEnded => pc' = pc]_vars
C30_Witness ==
    /\ Stopped /\ pc = "done"
    /\ observed_exit /\ ~child_alive /\ view_valid /\ owner_ref
    /\ kills = 0 /\ del_pc = "none"

\* C31: the loop is left only when the view could not apply an update, the
\* view is invalid, the child has exited or a stop was requested: update_view
\* of a tick in which the view is valid, the child runs and no stop was
\* requested does not send the loop to _stop, whatever the clock reads.
UpdateViewReturns == pc = "last_update" /\ pc' # pc
C31_LoopLeftOnlyForCause ==
    [][(UpdateViewReturns /\ view_valid /\ is_running(_process, child_alive)
            /\ _shell_is_running /\ owner_ref) =>
           pc' # "stop_begin"]_vars

\* C32: a failure inside a tick does not unwind past the loop: the update
\* thread never ends in an exception, and it never ends while the session,
\* still alive, is marked running.
C32_FailuresLocalToTick ==
    /\ pc # "crashed"
    /\ (pc \in {"done", "crashed"} /\ weak_alive) => ~_shell_is_running

\* C33: no scroll request is cleared without having been applied: the
\* request that _update_scrolling removes from the slot is the one whose
\* navigation method this tick has called.
C33_NoRequestClearedUnapplied ==
    [][(pc = "scroll_clear" /\ pc' # pc) =>
           /\ _scroll # None
           /\ Corresponding(_scroll) = Navigation(index, direction)]_vars

\* C34: after a spawn failure no step raises an error and no signal is sent:
\* a keypress is dropped silently and the teardown runs to its end.
Raises(calls) == \E i \in 1..Len(calls) : calls[i][1] = "raise"
SpawnFailed == pc # "construct" /\ ~has_shell
C34_SpawnFailureDegradesSilently ==
    SpawnFailed => (~Raises(out) /\ kills = 0)

\* C35: the teardown by the owner ends without an unhandled error on
\* whichever thread it runs: no step of __del__ raises, and once the
\* session is marked stopped the update thread starts no new tick.
DelStep == del_pc # "none" /\ del_pc' # del_pc
C35_TeardownWithoutError ==
    /\ [][DelStep => ~Raises(out')]_vars
    /\ [][(pc = "loop_head" /\ pc' # pc /\ ~_shell_is_running) => pc' # "poll"]_vars

\* C36: the bytes written for a keypress are those of the same key, ctrl and
\* alt without shift and without meta: shift, and a meta that was not
\* rejected, do not change them.
C36_ShiftAndMetaNotEncoded ==
    KeypressSent =>
        LET unshifted == send_keypress(kp_request.key, Ctrl, Alt, FALSE, FALSE)
        IN  /\ kp_keycode = unshifted
            /\ \A i \in 1..Len(out) :
                   out[i][1] = "os.write" => out[i][2] = encode_utf8(unshifted)
C36_Witness ==
    /\ KeypressSent /\ Shift /\ ~Ctrl /\ ~Alt
    /\ kp_request.key = <<97>>
    /\ out = << <<"os.write", <<97>> >> >>

\* The dedicated sequence of an arrow key under alt: ESC [ 1 ; 3 and the
\* arrow's letter.
ArrowKeys == {<<117, 112>>, <<100, 111, 119, 110>>, <<114, 105, 103, 104, 116>>,
              <<108, 101, 102, 116>>}
ArrowLetter(key) ==
    CASE key = <<117, 112>> -> 65
      [] key = <<100, 111, 119, 110>> -> 66
      [] key = <<114, 105, 103, 104, 116>> -> 67
      [] key = <<108, 101, 102, 116>> -> 68
AltArrowSequence(key) == <<27, 91, 49, 59, 51, ArrowLetter(key)>>

\* C37 as stated: with alt and without ctrl, an arrow key is encoded as its
\* dedicated sequence and every other key as ESC followed by the plain-key
\* encoding of the key as it was given.
C37_AltEncoding ==
    (KeypressSent /\ Alt /\ ~Ctrl) =>
        /\ WrittenIsKeyCode
        /\ kp_keycode = IF kp_request.key \in ArrowKeys
                        THEN AltArrowSequence(kp_request.key)
                        ELSE <<27>> \o PlainKeyEncoding(kp_request.key)

\* C37 amended: with alt and without ctrl, a key whose lowercase is an arrow
\* key is encoded as the arrow's dedicated sequence and every other key as ESC
\* followed by the plain-key encoding of the lowercased key.
C37_AltEncodingOfLoweredKey ==
    (KeypressSent /\ Alt /\ ~Ctrl) =>
        /\ WrittenIsKeyCode
        /\ kp_keycode = IF lower(kp_request.key) \in ArrowKeys
                        THEN AltArrowSequence(lower(kp_request.key))
                        ELSE <<27>> \o PlainKeyEncoding(lower(kp_request.key))

\* alt+"A" has been written as ESC and the lowercase letter.
C37_Witness ==
    /\ KeypressSent /\ Alt /\ ~Ctrl
    /\ kp_request.key = <<65>>
    /\ out = << <<"os.write", <<27, 97>> >> >>

\* C38: get_active_instance returns the session whose view has focus: when
\* one session's view is the one that was activated and not deactivated
\* since, it is that session; when none is, it is None; and a keypress
\* command calls that session only.
C38_ActiveIsFocused ==
    /\ \A s \in Sessions :
           view_focus = {s} => ActiveInstance(_active_instance, instances) = s
    /\ view_focus = {} => ActiveInstance(_active_instance, instances) = None

\* C39: the view's text is the concatenation, by ascending row, of the
\* tracked content of the tracked rows, whenever the update thread is not
\* inside _update_lines; and the span of every replace or erase command lies
\* inside the view's text and covers the old text of the row.
RECURSIVE ConcatRows(_, _)
ConcatRows(bc, rows) ==
    IF rows = <<>> THEN <<>> ELSE bc[Head(rows)] \o ConcatRows(bc, Tail(rows))
TrackedText(bc) == ConcatRows(bc, Sorted(DOMAIN bc))
OldText(bc, row) == IF row \in DOMAIN bc THEN bc[row] ELSE <<>>
C39_ViewTextIsTrackedText ==
    /\ [](pc # "update_lines" => view_text = TrackedText(_buffer_contents))
    /\ [][LineUpdated =>
              \A i \in 1..Len(out') :
                  out'[i][1] \in {"terminal_view_replace", "terminal_view_erase"} =>
                      /\ out'[i][2] <= out'[i][3] /\ out'[i][3] <= Len(view_text)
                      /\ SubSeq(view_text, out'[i][2] + 1, out'[i][3])
                             = OldText(_buffer_contents, Head(todo))]_vars
====
